---- MODULE Spec2Model ----
(***************************************************************************)
(* Graph-relationship store of opencti-graphql (database/elasticSearch):   *)
(* access filtering, pagination and listing, the relation codec, bulk      *)
(* indexing with denormalized references and the cascading deletion.       *)
(* The search engine is modelled by what the queries the code builds       *)
(* select (Matches, Search); the code's handlers are the actions.          *)
(***************************************************************************)
EXTENDS Integers, Sequences, FiniteSets, TLC

\* ------------------------------------------------------------------------
\* Helpers on sequences and sets
\* ------------------------------------------------------------------------
Range(s) == { s[i] : i \in DOMAIN s }

Min(a, b) == IF a <= b THEN a ELSE b

RECURSIVE SetToSeq(_)
SetToSeq(S) ==
  IF S = {} THEN <<>>
  ELSE LET x == CHOOSE y \in S : TRUE IN <<x>> \o SetToSeq(S \ {x})

RECURSIVE FlattenSeq(_)
FlattenSeq(ss) == IF ss = <<>> THEN <<>> ELSE Head(ss) \o FlattenSeq(Tail(ss))

RECURSIVE UniqSeq(_)
UniqSeq(s) ==
  IF s = <<>> THEN <<>>
  ELSE LET r == UniqSeq(SubSeq(s, 1, Len(s) - 1))
       IN IF s[Len(s)] \in Range(r) THEN r ELSE Append(r, s[Len(s)])

Count(s, x) == Cardinality({ i \in DOMAIN s : s[i] = x })

\* R.splitEvery(n, list)
RECURSIVE splitEvery(_, _)
splitEvery(n, s) ==
  IF s = <<>> THEN <<>>
  ELSE IF Len(s) <= n THEN << s >>
  ELSE << SubSeq(s, 1, n) >> \o splitEvery(n, SubSeq(s, n + 1, Len(s)))

\* ------------------------------------------------------------------------
\* Program constants
\* ------------------------------------------------------------------------
ES_MAX_CONCURRENCY == 2
ES_MAX_PAGINATION == 5000
MAX_SPLIT == 250
MAX_JS_PARAMS == 65536
MAX_SEARCH_SIZE == 5000
DEFAULT_FIRST == 200
ROLE_FROM == "from"
ROLE_TO == "to"
BYPASS == "BYPASS"
BASE_TYPE_RELATION == "RELATION"
BASE_TYPE_ENTITY == "ENTITY"
ABSTRACT_BASIC_RELATIONSHIP == "basic-relationship"
RELATION_CREATED_BY == "created-by"
RELATION_OBJECT_MARKING == "object-marking"
RELATION_OBJECT_LABEL == "object-label"
RELATION_KILL_CHAIN_PHASE == "kill-chain-phase"
RELATION_INDICATES == "indicates"
RELATION_RELATED_TO == "related-to"

\* A role is the pair <<relationship type, side>>, the code's `${type}_${side}`.
RoleOf(type, side) == << type, side >>

UNIMPACTED_ENTITIES_ROLE ==
  { RoleOf(RELATION_CREATED_BY, ROLE_TO), RoleOf(RELATION_OBJECT_MARKING, ROLE_TO),
    RoleOf(RELATION_OBJECT_LABEL, ROLE_TO), RoleOf(RELATION_KILL_CHAIN_PHASE, ROLE_TO),
    RoleOf(RELATION_INDICATES, ROLE_TO) }

isImpactedTypeAndSide(type, side) == RoleOf(type, side) \notin UNIMPACTED_ENTITIES_ROLE

\* A test that takes every role as impacted.
isImpactedRoleAlways(role) == TRUE

isImpactedRole(role) == role \notin UNIMPACTED_ENTITIES_ROLE

\* ------------------------------------------------------------------------
\* Schema helpers (schema/schemaUtils, schema/stixRelationship, schema/general)
\* ------------------------------------------------------------------------
RelationTypes == { RELATION_RELATED_TO, RELATION_INDICATES, RELATION_OBJECT_MARKING }

getParentTypes(type) ==
  CASE type \in { RELATION_RELATED_TO, RELATION_INDICATES } ->
         << "stix-core-relationship", "stix-relationship", ABSTRACT_BASIC_RELATIONSHIP >>
    [] type = RELATION_OBJECT_MARKING ->
         << "stix-meta-relationship", "stix-relationship", ABSTRACT_BASIC_RELATIONSHIP >>
    [] type = "Report" ->
         << "Basic-Object", "Stix-Object", "Stix-Core-Object", "Stix-Domain-Object", "Container" >>
    [] OTHER -> << "Basic-Object", "Stix-Object", "Stix-Core-Object", "Stix-Domain-Object" >>

isBasicRelationship(type) ==
  type = ABSTRACT_BASIC_RELATIONSHIP \/ ABSTRACT_BASIC_RELATIONSHIP \in Range(getParentTypes(type))

isStixRelationShipExceptMeta(type) == "stix-core-relationship" \in Range(getParentTypes(type))

\* An absent (null / undefined) value: of a list or role, of an id or string, and
\* of an element.
Null == << "\\null" >>

NullId == "\\null"

NullElement == [ null |-> TRUE ]

\* R.dissoc(key, obj) and the object spread { ...a, ...b } (b wins).
dissoc(key, obj) == [ f \in DOMAIN obj \ { key } |-> obj[f] ]

Spread(a, b) == b @@ a

\* buildRefRelationKey(type): the document field rel_<type>.internal_id that holds
\* the denormalized references of a relationship type.
buildRefRelationKey(type) ==
  CASE type = RELATION_OBJECT_MARKING -> "rel_object-marking.internal_id"
    [] type = RELATION_RELATED_TO -> "rel_related-to.internal_id"
    [] type = RELATION_INDICATES -> "rel_indicates.internal_id"

\* buildRefRelationSearchKey(type): the keyword sub-field of the same field.
buildRefRelationSearchKey(type) ==
  CASE type = RELATION_OBJECT_MARKING -> "rel_object-marking.internal_id.keyword"
    [] type = RELATION_RELATED_TO -> "rel_related-to.internal_id.keyword"
    [] type = RELATION_INDICATES -> "rel_indicates.internal_id.keyword"

RefKeys == { buildRefRelationKey(t) : t \in RelationTypes }

NoRefs == [ k \in RefKeys |-> Null ]

\* ------------------------------------------------------------------------
\* Documents. The index is a function from the stored internal ids to documents:
\*   [idx, internal_id, standard_id, name, base_type, entity_type, created_at,
\*    rel (RefKeys -> list of ids or Null)]
\* a relationship document carries moreover connections, a list of connections
\* [internal_id, name, types, role].
\* created_at = 0 stands for a document without that field.
\* ------------------------------------------------------------------------
IndexOf(baseType) ==
  IF baseType = BASE_TYPE_RELATION THEN "opencti_relationships" ELSE "opencti_entities"

\* The lexicographic order of the standard ids used in the model.
StandardIds == << "std-a", "std-b", "std-c", "std-d", "std-e", "std-f" >>

StdRank(sid) == CHOOSE i \in DOMAIN StandardIds : StandardIds[i] = sid

\* The values the engine has indexed for a field of a document (or, for the
\* connections.* fields, of one nested connection).
FieldValues(d, f) ==
  CASE f = "internal_id.keyword" -> { d.internal_id }
    [] f = "standard_id.keyword" -> { d.standard_id }
    [] f = "entity_type.keyword" -> { d.entity_type }
    [] f = "parent_types.keyword" -> Range(getParentTypes(d.entity_type))
    [] f = "name.keyword" -> { d.name }
    [] f = "created_at" -> IF d.created_at = 0 THEN {} ELSE { d.created_at }
    [] f \in RefKeys -> IF d.rel[f] = Null THEN {} ELSE Range(d.rel[f])
    [] f \in { buildRefRelationSearchKey(t) : t \in RelationTypes } ->
         LET k == CHOOSE k \in RefKeys :
                    \E t \in RelationTypes : k = buildRefRelationKey(t) /\ f = buildRefRelationSearchKey(t)
         IN IF d.rel[k] = Null THEN {} ELSE Range(d.rel[k])
    [] f \in { "connections.internal_id", "connections.internal_id.keyword" } -> { d.internal_id }
    [] f \in { "connections.types", "connections.types.keyword" } -> Range(d.types)
    [] f = "connections.role" -> { d.role }
    [] OTHER -> {}

\* Query clauses of the engine's DSL.
Exists(f) == [ k |-> "exists", f |-> f ]

MatchPhrase(f, v) == [ k |-> "match", f |-> f, v |-> v ]

Bool(must, mustNot, should, msm) ==
  [ k |-> "bool", must |-> must, must_not |-> mustNot, should |-> should, msm |-> msm ]

NestedQuery(path, q) == [ k |-> "nested", path |-> path, q |-> q ]

RangeQuery(f, gte, lte) == [ k |-> "range", f |-> f, gte |-> gte, lte |-> lte ]

\* A query_string clause: the query is the list of the parts of its text, the
\* searched term between two wildcards.
QueryString(query, fields) == [ k |-> "query_string", q |-> query, fields |-> fields ]

\* The texts of a document (or of a connection) a query_string on every field reads.
TextValues(d) == { d[f] : f \in DOMAIN d \cap { "name", "internal_id", "standard_id", "entity_type" } }

\* The engine's evaluation of a clause on a document. A bool clause holds when
\* every must holds, no must_not holds and at least minimum_should_match of the
\* should clauses hold (the minimum is capped by the number of should clauses, so
\* a bool clause without any clause matches everything).
RECURSIVE Matches(_, _)
Matches(c, d) ==
  CASE c.k = "exists" -> FieldValues(d, c.f) # {}
    [] c.k = "match" -> c.v \in FieldValues(d, c.f)
    [] c.k = "range" -> \E v \in FieldValues(d, c.f) : c.gte <= v /\ v <= c.lte
    [] c.k = "query_string" -> c.q[2] \in TextValues(d)
    [] c.k = "nested" ->
         /\ c.path \in DOMAIN d
         /\ \E i \in DOMAIN d[c.path] : Matches(c.q, d[c.path][i])
    [] c.k = "bool" ->
         /\ \A i \in DOMAIN c.must : Matches(c.must[i], d)
         /\ \A i \in DOMAIN c.must_not : ~Matches(c.must_not[i], d)
         /\ Cardinality({ i \in DOMAIN c.should : Matches(c.should[i], d) })
              >= Min(c.msm, Len(c.should))

\* ------------------------------------------------------------------------
\* Access Filter Builder
\* A user is [capabilities (set of names), allowed_marking, all_marking (sets of
\* marking definitions [internal_id, definition_type])].
\* ------------------------------------------------------------------------
isBypassUser(user) == BYPASS \in user.capabilities

GroupIds(markings, group) == { m.internal_id : m \in { x \in markings : x.definition_type = group } }

\* A restriction that lets a user without marking read everything.
buildMarkingRestrictionOpenWithoutMarking(user) ==
  IF isBypassUser(user) \/ user.allowed_marking = {} THEN [ must |-> <<>>, must_not |-> <<>> ]
  ELSE [ must |-> <<>>,
         must_not |-> [ i \in DOMAIN SetToSeq(user.all_marking \ user.allowed_marking) |->
                          MatchPhrase(buildRefRelationSearchKey(RELATION_OBJECT_MARKING),
                                      SetToSeq(user.all_marking \ user.allowed_marking)[i].internal_id) ] ]

buildMarkingRestriction(user) ==
  IF isBypassUser(user) THEN [ must |-> <<>>, must_not |-> <<>> ]
  ELSE IF user.allowed_marking = {} THEN
    [ must |-> <<>>, must_not |-> << Exists(buildRefRelationKey(RELATION_OBJECT_MARKING)) >> ]
  ELSE
    LET markingGroups == SetToSeq({ m.definition_type : m \in user.all_marking })
        res(g) == GroupIds(user.all_marking, g) \ GroupIds(user.allowed_marking, g)
        mustNotHaveOneOf ==
          SelectSeq([ i \in DOMAIN markingGroups |-> res(markingGroups[i]) ], LAMBDA r : r # {})
        mustNotMarkingTerms ==
          [ i \in DOMAIN mustNotHaveOneOf |->
              Bool(<<>>, <<>>,
                   [ j \in DOMAIN SetToSeq(mustNotHaveOneOf[i]) |->
                       MatchPhrase(buildRefRelationSearchKey(RELATION_OBJECT_MARKING),
                                   SetToSeq(mustNotHaveOneOf[i])[j]) ],
                   1) ]
        markingBool ==
          Bool(<<>>, <<>>,
               << Bool(<<>>, << Exists(buildRefRelationSearchKey(RELATION_OBJECT_MARKING)) >>, <<>>, 0),
                  Bool(<<>>, mustNotMarkingTerms, <<>>, 0) >>,
               1)
    IN [ must |-> << markingBool >>, must_not |-> <<>> ]

\* ------------------------------------------------------------------------
\* Relation Projection Codec
\* ------------------------------------------------------------------------
\* Decode (read path)
elBuildRelationFrom(connection) ==
  [ from |-> NullElement, fromId |-> connection.internal_id, fromRole |-> connection.role,
    fromType |-> Head(connection.types) ]

\* A decoding that takes the most general type of the connection for toType.
elBuildRelationToLastType(connection) ==
  [ to |-> NullElement, toId |-> connection.internal_id, toRole |-> connection.role,
    toType |-> connection.types[Len(connection.types)] ]

elBuildRelationTo(connection) ==
  [ to |-> NullElement, toId |-> connection.internal_id, toRole |-> connection.role,
    toType |-> Head(connection.types) ]

\* R.find: the first element that satisfies the predicate, or Null.
FindConnection(connections, role) ==
  LET found == SelectSeq(connections, LAMBDA c : c.role = role)
  IN IF found = <<>> THEN NullElement ELSE Head(found)

fromConnectionOf(concept) ==
  FindConnection(concept.connections, RoleOf(concept.entity_type, ROLE_FROM))

toConnectionOf(concept) ==
  FindConnection(concept.connections, RoleOf(concept.entity_type, ROLE_TO))

\* elMergeRelation throws when one of the two connections is not found.
elRebuildRelationFails(concept) ==
  /\ concept.base_type = BASE_TYPE_RELATION
  /\ (fromConnectionOf(concept) = NullElement \/ toConnectionOf(concept) = NullElement)

\* `${convertEntityTypeToStixType(type)}--temporary`
temporaryRef(type) == << "stix", type, "--temporary" >>

elMergeRelation(concept, fromConnection, toConnection) ==
  Spread(Spread(concept,
                Spread(elBuildRelationFrom(fromConnection),
                       [ source_ref |-> temporaryRef(Head(fromConnection.types)) ])),
         Spread(elBuildRelationTo(toConnection),
                [ target_ref |-> temporaryRef(Head(toConnection.types)) ]))

elRebuildRelation(concept) ==
  IF concept.base_type = BASE_TYPE_RELATION
  THEN LET relation == elMergeRelation(concept, fromConnectionOf(concept), toConnectionOf(concept))
       IN dissoc("connections", Spread(relation, [ relationship_type |-> relation.entity_type ]))
  ELSE concept

\* A hit of the engine is [source, sort]; the stored document carries its index.
\* The rel_ fields are not copied to the element, except the marking references,
\* which become object_marking_refs when the document has the field.
elDataConverterEntries(data, markings) ==
  IF markings = Null THEN data ELSE Spread(data, [ object_marking_refs |-> markings ])

elDataConverter(esHit) ==
  elDataConverterEntries(
    dissoc("rel", Spread([ id |-> esHit.source.internal_id, sort |-> esHit.sort ],
                         elRebuildRelation(esHit.source))),
    esHit.source.rel[buildRefRelationKey(RELATION_OBJECT_MARKING)])

\* Encode (write path). An element to index is a document that, for a relationship,
\* carries from, to (resolved elements or NullElement), fromId, toId, fromRole, toRole.
\* value.filter((i) => i): of a list of ids, the entries that are neither null nor
\* the empty string.
CompactArray(value) ==
  IF value = Null THEN Null ELSE SelectSeq(value, LAMBDA i : i # NullId /\ i # "")

prepareElementForIndexing(element) ==
  [ key \in DOMAIN element |->
      IF key = "rel" THEN [ k \in DOMAIN element.rel |-> CompactArray(element.rel[k]) ]
      ELSE element[key] ]

\* An encoding that tests the endpoints only.
prepareRelationFailsOnEndpoints(thing) ==
  thing.from = NullElement \/ thing.to = NullElement

prepareRelationFails(thing) ==
  \/ thing.fromRole = Null \/ thing.toRole = Null
  \/ thing.from = NullElement \/ thing.to = NullElement

ConnectionOf(e, role) ==
  [ internal_id |-> e.internal_id, name |-> e.name,
    types |-> << e.entity_type >> \o getParentTypes(e.entity_type), role |-> role ]

prepareRelation(thing) ==
  LET connections == << ConnectionOf(thing.from, thing.fromRole), ConnectionOf(thing.to, thing.toRole) >>
  IN dissoc("toRole", dissoc("toId", dissoc("to",
       dissoc("fromRole", dissoc("fromId", dissoc("from",
         Spread(thing, [ connections |-> connections ])))))))

prepareEntity(thing) == thing

prepareIndexingFails(elements) ==
  \E i \in DOMAIN elements :
    /\ elements[i].base_type = BASE_TYPE_RELATION
    /\ prepareRelationFails(prepareElementForIndexing(elements[i]))

prepareIndexing(elements) ==
  [ i \in DOMAIN elements |->
      LET thing == prepareElementForIndexing(elements[i])
      IN IF thing.base_type = BASE_TYPE_RELATION THEN prepareRelation(thing) ELSE prepareEntity(thing) ]

\* ------------------------------------------------------------------------
\* Pagination & Streaming Engine
\* ------------------------------------------------------------------------
\* Options are records whose absent keys take the code's defaults.
Opt(options, key, default) == IF key \in DOMAIN options THEN options[key] ELSE default

\* Cursor of a sort-key tuple (utils.offsetToCursor / cursorToOffset): a reversible
\* encoding, here a tagged copy of the tuple.
offsetToCursor(sort) == << "cursor" >> \o sort

cursorToOffset(cursor) == Tail(cursor)

\* utils.buildPagination: the connection format, one edge per node with its cursor.
buildPagination(limit, searchAfter, nodeHits, globalCount) ==
  [ edges |-> [ i \in DOMAIN nodeHits |->
                  [ node |-> nodeHits[i].node, cursor |-> offsetToCursor(nodeHits[i].sort) ] ],
    globalCount |-> globalCount ]

dateAttributes == { "created_at" }

\* `${key}.keyword` and `${key}.${nestedKey}`
Keyword(key) ==
  CASE key = "entity_type" -> "entity_type.keyword"
    [] key = "internal_id" -> "internal_id.keyword"
    [] key = "standard_id" -> "standard_id.keyword"
    [] key = "name" -> "name.keyword"
    [] key \in RefKeys ->
         buildRefRelationSearchKey(CHOOSE t \in RelationTypes : buildRefRelationKey(t) = key)

NestedField(key, nestedKey) ==
  CASE key = "connections" /\ nestedKey = "internal_id" -> "connections.internal_id"
    [] key = "connections" /\ nestedKey = "types" -> "connections.types"
    [] key = "connections" /\ nestedKey = "role" -> "connections.role"

TypeTerms(typeValue) ==
  << MatchPhrase("entity_type.keyword", typeValue), MatchPhrase("parent_types.keyword", typeValue) >>

IdTerms(id) ==
  << MatchPhrase("internal_id.keyword", id), MatchPhrase("standard_id.keyword", id),
     MatchPhrase("x_opencti_stix_ids.keyword", id) >>

\* The clause of one valid filter: a nested filter, or a filter on values.
NestedFilterClause(f) ==
  LET localFilterMode == Opt(f, "filterMode", "or")
      nestedShould(n) ==
        [ i \in DOMAIN n.values |-> MatchPhrase(NestedField(f.key, n.key), n.values[i]) ]
      nestedMust ==
        [ j \in DOMAIN f.nested |->
            Bool(<<>>, <<>>, nestedShould(f.nested[j]),
                 IF localFilterMode = "or" THEN 1 ELSE Len(nestedShould(f.nested[j]))) ]
  IN NestedQuery(f.key, Bool(nestedMust, <<>>, <<>>, 0))

ValueClause(key, value) ==
  IF value = "EXISTS" THEN Exists(key)
  ELSE MatchPhrase(IF key \in dateAttributes THEN key ELSE Keyword(key), value)

ValuesFilterClause(f) ==
  LET localFilterMode == Opt(f, "filterMode", "or")
      kept == SelectSeq(f.values, LAMBDA v : v # NullId)
      valuesFiltering == [ i \in DOMAIN kept |-> ValueClause(f.key, kept[i]) ]
  IN Bool(<<>>, <<>>, valuesFiltering,
          IF localFilterMode = "or" THEN 1 ELSE Len(valuesFiltering))

\* A filter whose null values add no clause.
FilterMustNotIgnoringNull(f) == << >>

\* A null among the values of a filter adds a must_not exists on its key.
FilterMustNot(f) ==
  IF "nested" \in DOMAIN f THEN <<>>
  ELSE [ i \in DOMAIN SelectSeq(f.values, LAMBDA v : v = NullId) |-> Exists(f.key) ]

isValidFilter(f) ==
  \/ ("values" \in DOMAIN f /\ Len(f.values) > 0)
  \/ ("nested" \in DOMAIN f /\ Len(f.nested) > 0)

\* A search body without search_after (a search_after tuple is never empty).
NoSearchAfter == << >>

\* The free-text search: the term between wildcards, searched in every field of the
\* document and of its connections, the name counting five times.
finalSearch(search) == << "*", search, "*" >>

SearchClause(search) ==
  Bool(<<>>, <<>>,
       << QueryString(finalSearch(search), << "name^5", "*" >>),
          NestedQuery("connections",
                      Bool(<< QueryString(finalSearch(search),
                                          << "connections.name^5", "connections.*" >>) >>,
                           <<>>, <<>>, 0)) >>,
       1)

\* The search body elPaginate builds: must, must_not, sort, size, search_after.
elPaginateQuery(user, options) ==
  LET ids == Opt(options, "ids", <<>>)
      first == Opt(options, "first", DEFAULT_FIRST)
      after == Opt(options, "after", Null)
      orderBy == Opt(options, "orderBy", NullId)
      orderMode == Opt(options, "orderMode", "asc")
      types == Opt(options, "types", <<>>)
      filters == Opt(options, "filters", <<>>)
      filterMode == Opt(options, "filterMode", "and")
      search == Opt(options, "search", NullId)
      searchAfter == IF after # Null THEN cursorToOffset(after) ELSE NoSearchAfter
      markingRestrictions == buildMarkingRestriction(user)
      idsMust ==
        IF Len(ids) > 0
        THEN << Bool(<<>>, <<>>, FlattenSeq([ i \in DOMAIN ids |-> IdTerms(ids[i]) ]), 1) >>
        ELSE <<>>
      typesMust ==
        IF Len(types) > 0
        THEN << Bool(<<>>, <<>>, FlattenSeq([ i \in DOMAIN types |-> TypeTerms(types[i]) ]), 1) >>
        ELSE <<>>
      validFilters == SelectSeq(filters, isValidFilter)
      mustFilters ==
        [ i \in DOMAIN validFilters |->
            IF "nested" \in DOMAIN validFilters[i]
            THEN NestedFilterClause(validFilters[i]) ELSE ValuesFilterClause(validFilters[i]) ]
      filtersMustNot == FlattenSeq([ i \in DOMAIN validFilters |-> FilterMustNot(validFilters[i]) ])
      filtersMust ==
        IF filterMode = "or" THEN << Bool(<<>>, <<>>, mustFilters, 1) >> ELSE mustFilters
      orderKeyword == IF orderBy \in dateAttributes THEN orderBy ELSE Keyword(orderBy)
      hasOrder == orderBy # NullId
      searchMust == IF search # NullId THEN << SearchClause(search) >> ELSE <<>>
      ordering ==
        IF hasOrder THEN << [ field |-> orderKeyword, mode |-> orderMode ] >>
        ELSE IF search # NullId THEN << [ field |-> "_score", mode |-> "desc" ] >>
        ELSE << [ field |-> "standard_id.keyword", mode |-> "asc" ] >>
      orderMust == IF hasOrder THEN << Exists(orderKeyword) >> ELSE <<>>
  IN [ size |-> IF first # 0 THEN first ELSE 10,
       sort |-> ordering,
       must |-> markingRestrictions.must \o idsMust \o typesMust \o filtersMust
                \o searchMust \o orderMust,
       must_not |-> markingRestrictions.must_not \o filtersMustNot,
       search_after |-> searchAfter ]

\* The engine's search. Documents are sorted on the sort field (a date compares as a
\* number, a standard id lexicographically); documents with equal sort values come
\* in the engine's internal order, for which the order of the standard ids stands
\* here (SearchTied, below, draws that order from every order of the documents).
\* search_after resumes strictly after the given sort values.
SortValue(d, field) ==
  IF field = "created_at" THEN d.created_at ELSE d.standard_id

SortRank(field, value) == IF field = "created_at" THEN value ELSE StdRank(value)

SortsBefore(a, b, order) ==
  LET ra == SortRank(order.field, SortValue(a, order.field))
      rb == SortRank(order.field, SortValue(b, order.field))
  IN IF ra = rb THEN StdRank(a.standard_id) < StdRank(b.standard_id)
     ELSE IF order.mode = "asc" THEN ra < rb ELSE ra > rb

IsAfter(d, order, searchAfter) ==
  LET rd == SortRank(order.field, SortValue(d, order.field))
      rs == SortRank(order.field, searchAfter[1])
  IN IF order.mode = "asc" THEN rd > rs ELSE rd < rs

MatchingIds(idx, indices, body) ==
  { id \in DOMAIN idx :
      /\ idx[id].idx \in indices
      /\ Matches(Bool(body.must, body.must_not, Opt(body, "should", <<>>),
                      Opt(body, "minimum_should_match", 0)), idx[id]) }

SearchResume(idx, body, sorted) ==
  IF body.search_after = NoSearchAfter THEN sorted
  ELSE SelectSeq(sorted, LAMBDA id : IsAfter(idx[id], body.sort[1], body.search_after))

SearchPage(size, resumed) == SubSeq(resumed, 1, Min(size, Len(resumed)))

SearchHits(idx, body, page) ==
  [ i \in DOMAIN page |->
      [ source |-> idx[page[i]], sort |-> << SortValue(idx[page[i]], body.sort[1].field) >> ] ]

SearchOf(idx, body, matching) ==
  [ hits |-> SearchHits(idx, body,
               SearchPage(body.size,
                 SearchResume(idx, body,
                   SortSeq(SetToSeq(matching),
                           LAMBDA a, b : SortsBefore(idx[a], idx[b], body.sort[1]))))),
    total |-> Cardinality(matching) ]

Search(idx, indices, body) == SearchOf(idx, body, MatchingIds(idx, indices, body))

READ_RELATIONSHIPS_INDICES == { IndexOf(BASE_TYPE_RELATION) }

READ_DATA_INDICES == { IndexOf(BASE_TYPE_RELATION), IndexOf(BASE_TYPE_ENTITY) }

\* elPaginate: [err, value, searches, queries], searches being the number of search
\* requests sent to the engine and queries their bodies. A hit that cannot be decoded makes the call fail.
elPaginateNodes(convertedHits) ==
  [ i \in DOMAIN convertedHits |-> [ node |-> convertedHits[i], sort |-> convertedHits[i].sort ] ]

elPaginateValue(options, body, convertedHits, total) ==
  IF Opt(options, "connectionFormat", TRUE)
  THEN buildPagination(Opt(options, "first", DEFAULT_FIRST), body.search_after,
                       elPaginateNodes(convertedHits), total)
  ELSE convertedHits

elPaginateData(options, body, data) ==
  IF \E i \in DOMAIN data.hits : elRebuildRelationFails(data.hits[i].source)
  THEN [ err |-> "TypeError", value |-> <<>>, searches |-> 1 ]
  ELSE [ err |-> "none",
         value |-> elPaginateValue(options, body,
                     [ i \in DOMAIN data.hits |-> elDataConverter(data.hits[i]) ], data.total),
         searches |-> 1 ]

\* A pagination without the test on the size of the page.
elPaginateBodyAnySize(idx, indexName, options, body) ==
  Spread(elPaginateData(options, body, Search(idx, indexName, body)), [ queries |-> << body >> ])

elPaginateBody(idx, indexName, options, body) ==
  IF body.size > ES_MAX_PAGINATION
  THEN [ err |-> "DatabaseError", value |-> <<>>, searches |-> 0, queries |-> <<>> ]
  ELSE Spread(elPaginateData(options, body, Search(idx, indexName, body)),
              [ queries |-> << body >> ])

elPaginate(user, idx, indexName, options) ==
  elPaginateBody(idx, indexName, options, elPaginateQuery(user, options))

\* An error of the engine is [name, root_cause], root_cause being the list of the
\* reasons reported; a reason is a text, kept as the list of its parts, and
\* R.includes(part, reason) says whether the text holds the part.
includes(part, reason) == part \in Range(reason)

NoRaise == [ name |-> "none", root_cause |-> << >> ]

\* The causes counted as invalid mapping, without the reason of a missing mapping.
invalidMappingCausesNoSuchIndexOnly(root_cause) ==
  SelectSeq(root_cause, LAMBDA r : includes("no such index", r))

invalidMappingCauses(root_cause) ==
  SelectSeq(root_cause,
            LAMBDA r : includes("No mapping found for", r) \/ includes("no such index", r))

\* catch: the error is thrown again when it has more causes than invalid mapping
\* causes, and is replaced by an empty result otherwise.
elPaginateCatch(options, err) ==
  IF Len(err.root_cause) > Len(invalidMappingCauses(err.root_cause))
  THEN [ err |-> err.name, raised |-> err, value |-> << >> ]
  ELSE [ err |-> "none", raised |-> NoRaise,
         value |-> IF Opt(options, "connectionFormat", TRUE)
                   THEN buildPagination(0, Null, << >>, 0) ELSE << >> ]

elPaginateRejectedBody(options, body, err) ==
  IF body.size > ES_MAX_PAGINATION
  THEN [ err |-> "DatabaseError", raised |-> NoRaise, value |-> <<>>, searches |-> 0,
         queries |-> <<>> ]
  ELSE Spread(elPaginateCatch(options, err), [ searches |-> 1, queries |-> << body >> ])

\* elPaginate when the engine rejects the search with err:
\* [err, raised, value, searches, queries].
elPaginateRejected(user, options, err) ==
  elPaginateRejectedBody(options, elPaginateQuery(user, options), err)

\* elList: the options of a page request, the test that ends the loop after a
\* page, and the loop condition.
elListOpts(options, searchAfter) ==
  Spread(options, [ first |-> MAX_SEARCH_SIZE, after |-> searchAfter, connectionFormat |-> FALSE ])

elListIsLastPage(options, elements) ==
  Len(elements) = 0 \/ ("first" \in DOMAIN options /\ Len(elements) < options.first)

elListContinues(continueProcess, hasNextPage) == continueProcess /\ hasNextPage

\* A listing that goes on whatever the callback returns.
callbackIgnored(callbackResult) == TRUE

\* What the callback's result makes of continueProcess: true or undefined go on.
callbackContinues(callbackResult) == callbackResult \in { "true", "undefined" }

\* elList without a callback, run to its end: [err, listing, searches, queries, page], page
\* being the last page read.
RECURSIVE elListLoop(_, _, _, _, _, _)
elListPage(user, idx, indexName, options, got) ==
  IF got.err # "none" \/ elListIsLastPage(options, got.page) THEN got
  ELSE elListLoop(user, idx, indexName, options,
                  offsetToCursor(got.page[Len(got.page)].sort), got)

elListGot(acc, r) ==
  [ err |-> r.err, listing |-> acc.listing \o r.value, searches |-> acc.searches + r.searches,
    queries |-> acc.queries \o r.queries, page |-> r.value ]

elListLoop(user, idx, indexName, options, searchAfter, acc) ==
  elListPage(user, idx, indexName, options,
             elListGot(acc, elPaginate(user, idx, indexName, elListOpts(options, searchAfter))))

elList(user, idx, indexName, options) ==
  elListLoop(user, idx, indexName, options, Opt(options, "after", Null),
             [ err |-> "none", listing |-> <<>>, searches |-> 0, queries |-> <<>>,
               page |-> <<>> ])

\* ------------------------------------------------------------------------
\* Read-through cache (database/redis): a function from the cached internal ids
\* to the cached elements; useCache says whether the cache is enabled.
\* ------------------------------------------------------------------------
cacheGet(cache, ids) ==
  LET found == SelectSeq(UniqSeq(ids), LAMBDA id : id \in DOMAIN cache)
  IN [ i \in DOMAIN found |-> cache[found[i]] ]

cacheSet(on, cache, elements) ==
  IF ~on THEN cache
  ELSE [ id \in DOMAIN cache \cup { elements[i].internal_id : i \in DOMAIN elements } |->
           IF \E i \in DOMAIN elements : elements[i].internal_id = id
           THEN elements[CHOOSE i \in DOMAIN elements : elements[i].internal_id = id]
           ELSE cache[id] ]

cacheDel(cache, ids) == [ id \in DOMAIN cache \ ids |-> cache[id] ]

getInstanceIds(instance) == { instance.internal_id, instance.standard_id }

\* ------------------------------------------------------------------------
\* Cache-Augmented Lookup
\* ------------------------------------------------------------------------
\* The cache test without the bypass capability.
isCacheAccessibleWithoutBypass(user, instance, type) ==
  LET dataMarkings == IF "object_marking_refs" \in DOMAIN instance
                      THEN Range(instance.object_marking_refs) ELSE {}
      userMarkings == { a.internal_id : a \in user.allowed_marking }
      dataTypes == { instance.entity_type } \cup Range(getParentTypes(instance.entity_type))
  IN /\ (dataMarkings = {} \/ dataMarkings \subseteq userMarkings)
     /\ ~(type # NullId /\ type \notin dataTypes)

isCacheAccessible(user, instance, type) ==
  LET dataMarkings == IF "object_marking_refs" \in DOMAIN instance
                      THEN Range(instance.object_marking_refs) ELSE {}
      userMarkings == { a.internal_id : a \in user.allowed_marking }
      isUserHaveAccess == dataMarkings = {} \/ dataMarkings \subseteq userMarkings
      dataTypes == { instance.entity_type } \cup Range(getParentTypes(instance.entity_type))
  IN /\ (isBypassUser(user) \/ isUserHaveAccess)
     /\ ~(type # NullId /\ type \notin dataTypes)

loadFromCache(user, cache, ids, type) ==
  LET data == cacheGet(cache, ids)
  IN [ cached |-> UNION { getInstanceIds(data[i]) : i \in DOMAIN data },
       accessible |-> SelectSeq(data, LAMBDA v : isCacheAccessible(user, v, type)) ]

elFindByIdsBody(user, workingIds, type) ==
  LET markingRestrictions == buildMarkingRestriction(user)
      should == Bool(<<>>, <<>>, FlattenSeq([ i \in DOMAIN workingIds |-> IdTerms(workingIds[i]) ]), 1)
      shouldType == IF type # NullId THEN << Bool(<<>>, <<>>, TypeTerms(type), 1) >> ELSE <<>>
  IN [ size |-> MAX_SEARCH_SIZE,
       sort |-> << [ field |-> "standard_id.keyword", mode |-> "asc" ] >>,
       must |-> << should >> \o shouldType \o markingRestrictions.must,
       must_not |-> markingRestrictions.must_not,
       search_after |-> NoSearchAfter ]

\* The hits of the groups of ids, searched one group after the other.
RECURSIVE elFindByIdsGroups(_, _, _, _, _)
elFindByIdsGroups(user, idx, indices, groupIds, type) ==
  IF groupIds = <<>> THEN <<>>
  ELSE Search(idx, indices, elFindByIdsBody(user, Head(groupIds), type)).hits
       \o elFindByIdsGroups(user, idx, indices, Tail(groupIds), type)

\* elFindByIds: [err, hits, cache, searches, cacheGets, cacheSets, queries].
elFindByIdsResult(on, cache, cacheHits, elasticHits, searches) ==
  [ err |-> "none",
    hits |-> SelectSeq(cacheHits,
                       LAMBDA c : \A i \in DOMAIN elasticHits :
                                    elasticHits[i].internal_id # c.internal_id)
             \o elasticHits,
    cache |-> cacheSet(on, cache, elasticHits), searches |-> searches,
    cacheGets |-> 1, cacheSets |-> searches ]

elFindByIdsHits(on, cache, cacheHits, esHits, searches) ==
  IF \E i \in DOMAIN esHits : elRebuildRelationFails(esHits[i].source)
  THEN [ err |-> "DatabaseError", hits |-> <<>>, cache |-> cache, searches |-> searches,
         cacheGets |-> 1, cacheSets |-> 0 ]
  ELSE elFindByIdsResult(on, cache, cacheHits,
                         [ i \in DOMAIN esHits |-> elDataConverter(esHits[i]) ], searches)

elFindByIdsSearch(user, idx, on, cache, indices, type, cacheHits, groupIds) ==
  Spread(elFindByIdsHits(on, cache, cacheHits,
                         elFindByIdsGroups(user, idx, indices, groupIds, type), Len(groupIds)),
         [ queries |-> [ i \in DOMAIN groupIds |-> elFindByIdsBody(user, groupIds[i], type) ] ])

elFindByIdsCached(user, idx, on, cache, indices, type, processIds, fromCache) ==
  elFindByIdsSearch(user, idx, on, cache, indices, type, fromCache.accessible,
                    splitEvery(MAX_SPLIT,
                               SelectSeq(processIds, LAMBDA id : id \notin fromCache.cached)))

elFindByIdsProcess(user, idx, on, cache, ids, indices, type, processIds) ==
  IF processIds = <<>>
  THEN [ err |-> "none", hits |-> <<>>, cache |-> cache, searches |-> 0,
         cacheGets |-> 0, cacheSets |-> 0, queries |-> <<>> ]
  ELSE elFindByIdsCached(user, idx, on, cache, indices, type, processIds,
                         loadFromCache(user, cache, ids, type))

elFindByIds(user, idx, on, cache, ids, indices, type) ==
  elFindByIdsProcess(user, idx, on, cache, ids, indices, type,
                     SelectSeq(ids, LAMBDA id : id # NullId))

\* elLoadById: [err, value, cache, searches, cacheGets, cacheSets]; value is the
\* element or NullElement.
elLoadByIdHits(r) ==
  IF r.err # "none" THEN Spread(r, [ value |-> NullElement ])
  ELSE IF Len(r.hits) > 1 THEN Spread(r, [ err |-> "DatabaseError", value |-> NullElement ])
  ELSE Spread(r, [ value |-> IF r.hits = <<>> THEN NullElement ELSE Head(r.hits) ])

elLoadById(user, idx, on, cache, id, type, indices) ==
  elLoadByIdHits(elFindByIds(user, idx, on, cache, << id >>, indices, type))

\* The hits of a search that gives no sort: the engine's order, for which the order
\* SetToSeq gives stands.
UnsortedHits(idx, matching) ==
  [ i \in DOMAIN SetToSeq(matching) |-> [ source |-> idx[SetToSeq(matching)[i]], sort |-> Null ] ]

\* elFindByFromAndTo: [err, hits, searches].
elFindByFromAndToQuery(user, fromId, toId, relationshipType) ==
  [ must |-> buildMarkingRestriction(user).must
             \o << NestedQuery("connections",
                               Bool(<< MatchPhrase("connections.internal_id.keyword", fromId) >>,
                                    <<>>, <<>>, 0)),
                   NestedQuery("connections",
                               Bool(<< MatchPhrase("connections.internal_id.keyword", toId) >>,
                                    <<>>, <<>>, 0)),
                   Bool(<<>>, <<>>, TypeTerms(relationshipType), 1) >>,
    must_not |-> buildMarkingRestriction(user).must_not ]

elFindByFromAndToHits(hits) ==
  IF \E i \in DOMAIN hits : elRebuildRelationFails(hits[i].source)
  THEN [ err |-> "DatabaseError", hits |-> <<>>, searches |-> 1 ]
  ELSE [ err |-> "none", hits |-> [ i \in DOMAIN hits |-> elDataConverter(hits[i]) ],
         searches |-> 1 ]

elFindByFromAndTo(user, idx, fromId, toId, relationshipType) ==
  Spread(elFindByFromAndToHits(
           UnsortedHits(idx, MatchingIds(idx, READ_RELATIONSHIPS_INDICES,
                          elFindByFromAndToQuery(user, fromId, toId, relationshipType)))),
         [ queries |-> << elFindByFromAndToQuery(user, fromId, toId, relationshipType) >> ])

\* elCount: [err, count, counted, searches], counted being the documents counted.
\* Of the options, types, fromId and toTypes are modelled; the others keep their
\* defaults.
elCountTypes(types) ==
  IF types # Null /\ Len(types) > 0
  THEN << Bool(<<>>, <<>>, [ i \in DOMAIN types |-> Bool(<<>>, <<>>, TypeTerms(types[i]), 1) ], 1) >>
  ELSE <<>>

elCountFromId(fromId) ==
  IF fromId # NullId
  THEN << NestedQuery("connections",
                      Bool(<< MatchPhrase("connections.internal_id.keyword", fromId) >>,
                           <<>>, <<>>, 0)) >>
  ELSE <<>>

elCountToTypes(toTypes) ==
  IF toTypes # Null
  THEN << NestedQuery("connections",
                      Bool(<<>>, <<>>,
                           [ i \in DOMAIN toTypes |->
                               MatchPhrase("connections.types.keyword", toTypes[i]) ], 1)) >>
  ELSE <<>>

\* A count query that leaves the must_not fragment out.
elCountQueryWithoutMustNot(user, options) ==
  [ must |-> buildMarkingRestriction(user).must
             \o elCountTypes(Opt(options, "types", Null))
             \o elCountFromId(Opt(options, "fromId", NullId))
             \o elCountToTypes(Opt(options, "toTypes", Null)),
    must_not |-> <<>> ]

elCountQuery(user, options) ==
  [ must |-> buildMarkingRestriction(user).must
             \o elCountTypes(Opt(options, "types", Null))
             \o elCountFromId(Opt(options, "fromId", NullId))
             \o elCountToTypes(Opt(options, "toTypes", Null)),
    must_not |-> buildMarkingRestriction(user).must_not ]

elCountOf(counted) ==
  [ err |-> "none", count |-> Cardinality(counted), counted |-> counted, searches |-> 1 ]

elCount(user, idx, indexName, options) ==
  Spread(elCountOf(MatchingIds(idx, indexName, elCountQuery(user, options))),
         [ queries |-> << elCountQuery(user, options) >> ])

\* elHistogramCount: [err, buckets, counted, searches]. Dates are numbers yyyymmdd;
\* a bucket is keyed by the date in the interval's format; buckets is the function
\* from the keys of the counted documents to their number.
READ_PLATFORM_INDICES == { IndexOf(BASE_TYPE_RELATION), IndexOf(BASE_TYPE_ENTITY) }

histogramIntervals == { "year", "month", "day" }

dateFormat(interval, date) ==
  CASE interval = "year" -> date \div 10000
    [] interval = "month" -> date \div 100
    [] OTHER -> date

histogramFilters(filters) ==
  [ i \in DOMAIN filters |->
      IF Opt(filters[i], "isNested", FALSE)
      THEN NestedQuery("connections",
                       Bool(<< MatchPhrase(filters[i].type, filters[i].value) >>, <<>>, <<>>, 0))
      ELSE MatchPhrase(IF Opt(filters[i], "isRelation", FALSE)
                       THEN buildRefRelationSearchKey(filters[i].type)
                       ELSE Keyword(filters[i].type),
                       filters[i].value) ]

elHistogramCountQuery(user, type, field, start, end, toTypes, filters) ==
  [ must |-> << RangeQuery(field, start, end) >>
             \o (IF type # NullId THEN << Bool(<<>>, <<>>, TypeTerms(type), 1) >> ELSE <<>>)
             \o (IF Len(toTypes) > 0
                 THEN << NestedQuery("connections",
                           Bool(<<>>, <<>>,
                                [ i \in DOMAIN toTypes |->
                                    MatchPhrase("connections.types.keyword", toTypes[i]) ], 1)) >>
                 ELSE <<>>)
             \o histogramFilters(filters)
             \o buildMarkingRestriction(user).must,
    must_not |-> buildMarkingRestriction(user).must_not ]

elHistogramCountBuckets(idx, field, interval, counted) ==
  [ err |-> "none",
    buckets |-> [ key \in { dateFormat(interval, v) :
                              v \in UNION { FieldValues(idx[id], field) : id \in counted } } |->
                    Cardinality({ id \in counted :
                                    \E v \in FieldValues(idx[id], field) :
                                      dateFormat(interval, v) = key }) ],
    counted |-> counted, searches |-> 1 ]

elHistogramCountSearch(user, idx, type, field, interval, start, end, toTypes, filters) ==
  Spread(elHistogramCountBuckets(idx, field, interval,
           MatchingIds(idx, READ_PLATFORM_INDICES,
                       elHistogramCountQuery(user, type, field, start, end, toTypes, filters))),
         [ queries |-> << elHistogramCountQuery(user, type, field, start, end, toTypes,
                                                filters) >> ])

\* elHistogramCount that sends its request whatever the interval.
elHistogramCountAnyInterval(user, idx, type, field, interval, start, end, toTypes, filters) ==
  elHistogramCountSearch(user, idx, type, field, interval, start, end, toTypes, filters)

elHistogramCount(user, idx, type, field, interval, start, end, toTypes, filters) ==
  IF interval \notin histogramIntervals
  THEN [ err |-> "FunctionalError", buckets |-> <<>>, counted |-> {}, searches |-> 0,
         queries |-> <<>> ]
  ELSE elHistogramCountSearch(user, idx, type, field, interval, start, end, toTypes, filters)

\* elAggregationCount: [err, buckets, counted, searches, queries]; buckets is the set
\* of [label, value], one per value of the aggregation field among the documents
\* counted. start and end are dates, 0 standing for none.
pascalize(key) == << "pascalize", key >>

elAggregationCountFilters(filters) ==
  [ i \in DOMAIN filters |->
      MatchPhrase(IF Opt(filters[i], "isRelation", FALSE)
                  THEN buildRefRelationSearchKey(filters[i].type)
                  ELSE Keyword(filters[i].type),
                  filters[i].value) ]

elAggregationCountQuery(user, type, start, end, filters) ==
  [ must |-> (IF start # 0 /\ end # 0 THEN << RangeQuery("created_at", start, end) >> ELSE <<>>)
             \o elAggregationCountFilters(filters)
             \o buildMarkingRestriction(user).must,
    must_not |-> buildMarkingRestriction(user).must_not,
    should |-> TypeTerms(type),
    minimum_should_match |-> 1 ]

TermsBuckets(idx, field, counted) ==
  { [ key |-> v, doc_count |-> Cardinality({ id \in counted : v \in FieldValues(idx[id], field) }) ] :
      v \in UNION { FieldValues(idx[id], field) : id \in counted } }

elAggregationCountBuckets(aggregationField, buckets, counted) ==
  [ err |-> "none",
    buckets |-> { [ label |-> IF aggregationField = "internal_id" THEN b.key ELSE pascalize(b.key),
                    value |-> b.doc_count ] : b \in buckets },
    counted |-> counted, searches |-> 1 ]

elAggregationCountOf(idx, aggregationField, counted) ==
  elAggregationCountBuckets(aggregationField,
                            TermsBuckets(idx, Keyword(aggregationField), counted), counted)

elAggregationCount(user, idx, type, aggregationField, start, end, filters) ==
  Spread(elAggregationCountOf(idx, aggregationField,
           MatchingIds(idx, READ_PLATFORM_INDICES,
                       elAggregationCountQuery(user, type, start, end, filters))),
         [ queries |-> << elAggregationCountQuery(user, type, start, end, filters) >> ])

\* elAggregationRelationsCount: [err, buckets, counted, searches, queries, cache].
\* The options are startDate, endDate (0 for none), toTypes, dateAttribute, fromId,
\* field, isTo, noDirection. The aggregation counts the nested connections of the
\* relationships found, here the pairs << relationship id, position >>.
isAbstract(type) ==
  type \in UNION { Range(getParentTypes(t)) : t \in { "Malware", "Report" } \cup RelationTypes }

elAggregationRelationsCountDates(start, end, dateAttribute) ==
  IF start # 0 /\ end # 0 THEN << RangeQuery(dateAttribute, start, end) >>
  ELSE IF start # 0 THEN << RangeQuery(dateAttribute, start, 99999999) >>
  ELSE IF end # 0 THEN << RangeQuery(dateAttribute, 0, end) >>
  ELSE <<>>

elAggregationRelationsCountTypes(toTypes) ==
  [ i \in DOMAIN toTypes |-> MatchPhrase("connections.types", toTypes[i]) ]

elAggregationRelationsCountQuery(user, type, opts) ==
  [ must |-> << Bool(<<>>, <<>>, TypeTerms(type), 1) >>
             \o elAggregationRelationsCountDates(Opt(opts, "startDate", 0), Opt(opts, "endDate", 0),
                                                 Opt(opts, "dateAttribute", "created_at"))
             \o (IF Opt(opts, "fromId", NullId) # NullId
                 THEN << NestedQuery("connections",
                           Bool(<< MatchPhrase("connections.internal_id", opts.fromId) >>,
                                <<>>, <<>>, 0)) >>
                 ELSE <<>>)
             \o (IF Len(Opt(opts, "toTypes", <<>>)) > 0
                 THEN << NestedQuery("connections",
                           Bool(<<>>, <<>>, elAggregationRelationsCountTypes(opts.toTypes), 1)) >>
                 ELSE <<>>)
             \o buildMarkingRestriction(user).must,
    must_not |-> buildMarkingRestriction(user).must_not ]

\* The nested connections the aggregation counts: all of them, or with toTypes and
\* a direction those whose role ends with _to (_from when isTo).
FilteredConnections(idx, counted, opts) ==
  UNION { { << id, i >> : i \in { j \in DOMAIN idx[id].connections :
                                    \/ Len(Opt(opts, "toTypes", <<>>)) = 0
                                    \/ Opt(opts, "noDirection", FALSE)
                                    \/ idx[id].connections[j].role[2]
                                         = (IF Opt(opts, "isTo", FALSE) THEN ROLE_FROM ELSE ROLE_TO) } } :
          id \in counted }

ConnectionKeys(connection, byId) ==
  IF byId THEN { connection.internal_id } ELSE Range(connection.types)

ConnectionBuckets(idx, conns, byId) ==
  { [ key |-> k,
      doc_count |-> Cardinality({ c \in conns :
                                    k \in ConnectionKeys(idx[c[1]].connections[c[2]], byId) }) ] :
      k \in UNION { ConnectionKeys(idx[c[1]].connections[c[2]], byId) : c \in conns } }

\* The types kept for the buckets: those of the connections of the hits that are
\* not the from entity nor of its type and, with toTypes, that have the first of
\* toTypes among their types, abstract types left out.
elAggregationRelationsCountKept(idx, counted, fromId, fromType, toTypes) ==
  { t \in UNION { Range(idx[c[1]].connections[c[2]].types) :
                    c \in { x \in UNION { { << id, i >> : i \in DOMAIN idx[id].connections } :
                                            id \in counted } :
                      /\ idx[x[1]].connections[x[2]].internal_id # fromId
                      /\ fromType \notin Range(idx[x[1]].connections[x[2]].types)
                      /\ \/ Len(toTypes) = 0
                         \/ Head(toTypes) \in Range(idx[x[1]].connections[x[2]].types) } } :
      ~isAbstract(t) }

elAggregationRelationsCountById(idx, conns, fromId) ==
  { [ label |-> b.key, value |-> b.doc_count ] :
      b \in { x \in ConnectionBuckets(idx, conns, TRUE) : x.key # fromId } }

elAggregationRelationsCountByType(idx, conns, types) ==
  { [ label |-> pascalize(b.key), value |-> b.doc_count ] :
      b \in { x \in ConnectionBuckets(idx, conns, FALSE) : x.key \in types } }

\* The from entity is loaded to know its type; a from entity that is not found
\* makes the call fail.
elAggregationRelationsCountLoaded(idx, counted, conns, opts, query, load) ==
  IF load.err # "none" \/ load.value = NullElement
  THEN [ err |-> "DatabaseError", buckets |-> {}, counted |-> {}, searches |-> 1 + load.searches,
         queries |-> << query >> \o load.queries, cache |-> load.cache ]
  ELSE [ err |-> "none",
         buckets |-> elAggregationRelationsCountByType(idx, conns,
                       elAggregationRelationsCountKept(idx, counted, opts.fromId,
                         load.value.entity_type, Opt(opts, "toTypes", <<>>))),
         counted |-> counted, searches |-> 1 + load.searches,
         queries |-> << query >> \o load.queries, cache |-> load.cache ]

elAggregationRelationsCountFound(user, idx, on, cache, opts, query, counted, conns) ==
  IF Opt(opts, "field", NullId) = "internal_id"
  THEN [ err |-> "none",
         buckets |-> elAggregationRelationsCountById(idx, conns, Opt(opts, "fromId", NullId)),
         counted |-> counted, searches |-> 1, queries |-> << query >>, cache |-> cache ]
  ELSE IF Opt(opts, "fromId", NullId) # NullId
  THEN elAggregationRelationsCountLoaded(idx, counted, conns, opts, query,
         elLoadById(user, idx, on, cache, opts.fromId, NullId, READ_DATA_INDICES))
  ELSE [ err |-> "none",
         buckets |-> elAggregationRelationsCountByType(idx, conns,
                       elAggregationRelationsCountKept(idx, counted, NullId, NullId,
                                                       Opt(opts, "toTypes", <<>>))),
         counted |-> counted, searches |-> 1, queries |-> << query >>, cache |-> cache ]

elAggregationRelationsCountSearch(user, idx, on, cache, opts, query, counted) ==
  elAggregationRelationsCountFound(user, idx, on, cache, opts, query, counted,
                                   FilteredConnections(idx, counted, opts))

elAggregationRelationsCountBody(user, idx, on, cache, opts, query) ==
  elAggregationRelationsCountSearch(user, idx, on, cache, opts, query,
                                    MatchingIds(idx, READ_RELATIONSHIPS_INDICES, query))

elAggregationRelationsCount(user, idx, on, cache, type, opts) ==
  IF Opt(opts, "field", NullId) \notin { "entity_type", "internal_id", NullId }
  THEN [ err |-> "FunctionalError", buckets |-> {}, counted |-> {}, searches |-> 0,
         queries |-> <<>>, cache |-> cache ]
  ELSE elAggregationRelationsCountBody(user, idx, on, cache, opts,
                                       elAggregationRelationsCountQuery(user, type, opts))

\* elAttributeValues: [err, value, counted, searches, queries]; value is the
\* connection of the values of the field among the documents the user may read,
\* in ascending order.
READ_ATTRIBUTE_INDICES == { IndexOf(BASE_TYPE_ENTITY) }

elAttributeValuesQuery(user) ==
  [ must |-> buildMarkingRestriction(user).must,
    must_not |-> buildMarkingRestriction(user).must_not ]

elAttributeValuesField(field) == IF field \in dateAttributes THEN field ELSE Keyword(field)

elAttributeValuesNodes(field, keys) ==
  [ i \in DOMAIN keys |->
      [ node |-> [ id |-> keys[i], key |-> keys[i], value |-> keys[i] ], sort |-> Null ] ]

elAttributeValuesOf(idx, field, counted) ==
  [ err |-> "none",
    value |-> buildPagination(0, Null,
                elAttributeValuesNodes(field,
                  SortSeq(SetToSeq({ b.key : b \in TermsBuckets(idx, field, counted) }),
                          LAMBDA a, b : SortRank(field, a) < SortRank(field, b))),
                Cardinality(TermsBuckets(idx, field, counted))),
    counted |-> counted, searches |-> 1 ]

elAttributeValues(user, idx, field) ==
  Spread(elAttributeValuesOf(idx, elAttributeValuesField(field),
           MatchingIds(idx, READ_ATTRIBUTE_INDICES, elAttributeValuesQuery(user))),
         [ queries |-> << elAttributeValuesQuery(user) >> ])

\* ------------------------------------------------------------------------
\* The engine's bulk API. An operation is
\*   [op |-> "index", idx, id, doc], [op |-> "update", idx, id, script] or
\*   [op |-> "delete", idx, id];
\* operations are applied one by one, each on its own document: an update of a
\* document that does not exist fails (and the others are still applied), a delete
\* of a document that does not exist reports not_found, which is no failure.
\* A script is [k |-> "removeIf", field, key] or [k |-> "addAll", adds], adds being a
\* list of [field, ids].
\* ------------------------------------------------------------------------
removeIfScript(field, key) == [ k |-> "removeIf", field |-> field, key |-> key ]

addAllScript(adds) == [ k |-> "addAll", adds |-> adds ]

\* A cleanup script that empties the field instead of editing it.
ApplyRemoveAll(doc, field, key) ==
  IF doc.rel[field] = Null THEN doc ELSE [ doc EXCEPT !.rel[field] = <<>> ]

\* if (ctx._source[f] != null) ctx._source[f].removeIf(rel -> rel == params.key)
ApplyRemoveIf(doc, field, key) ==
  IF doc.rel[field] = Null THEN doc
  ELSE [ doc EXCEPT !.rel[field] = SelectSeq(@, LAMBDA rel : rel # key) ]

\* if (ctx._source[f] == null) ctx._source[f] = []; ctx._source[f].addAll(params[f])
RECURSIVE ApplyAddAll(_, _)
ApplyAddAll(doc, adds) ==
  IF adds = <<>> THEN doc
  ELSE LET a == Head(adds)
           current == IF doc.rel[a.field] = Null THEN <<>> ELSE doc.rel[a.field]
       IN ApplyAddAll([ doc EXCEPT !.rel[a.field] = current \o a.ids ], Tail(adds))

ApplyScript(doc, script) ==
  CASE script.k = "removeIf" -> ApplyRemoveIf(doc, script.field, script.key)
    [] script.k = "addAll" -> ApplyAddAll(doc, script.adds)

DocExists(idx, op) == op.id \in DOMAIN idx /\ idx[op.id].idx = op.idx

ApplyBulkOp(idx, op) ==
  CASE op.op = "index" ->
         [ id \in DOMAIN idx \cup { op.id } |-> IF id = op.id THEN op.doc ELSE idx[id] ]
    [] op.op = "update" ->
         IF DocExists(idx, op) THEN [ idx EXCEPT ![op.id] = ApplyScript(@, op.script) ] ELSE idx
    [] op.op = "delete" ->
         IF DocExists(idx, op) THEN [ id \in DOMAIN idx \ { op.id } |-> idx[id] ] ELSE idx

BulkOpFails(idx, op) == op.op = "update" /\ ~DocExists(idx, op)

\* The index after the operations, and the operations that failed.
RECURSIVE ApplyBulk(_, _)
ApplyBulk(idx, ops) ==
  IF ops = <<>> THEN [ idx |-> idx, failed |-> <<>> ]
  ELSE LET rest == ApplyBulk(ApplyBulkOp(idx, Head(ops)), Tail(ops))
       IN [ idx |-> rest.idx,
            failed |-> IF BulkOpFails(idx, Head(ops)) THEN << Head(ops) >> \o rest.failed
                       ELSE rest.failed ]

\* elBulk: [err, idx]. The engine refuses a bulk request without operation; a
\* response that reports failed items is raised as one DatabaseError, the items
\* that succeeded staying applied.
elBulk(idx, body) ==
  IF body = <<>> THEN [ err |-> "DatabaseError", idx |-> idx ]
  ELSE LET result == ApplyBulk(idx, body)
       IN [ err |-> IF result.failed # <<>> THEN "DatabaseError" ELSE "none", idx |-> result.idx ]

\* The response of the engine to a bulk request, item by item. An item is
\* [action, id, error]; the engine fails the operations it cannot apply and the
\* operations of refused (a version conflict, a blocked or missing index, a
\* rejected document), and applies the others.
NoError == [ reason |-> "none", item |-> 0 ]

RECURSIVE BulkResponse(_, _, _, _)
BulkResponse(idx, ops, refused, i) ==
  IF i > Len(ops) THEN [ idx |-> idx, items |-> << >> ]
  ELSE LET fails == i \in refused \/ BulkOpFails(idx, ops[i])
           rest == BulkResponse(IF fails THEN idx ELSE ApplyBulkOp(idx, ops[i]), ops, refused, i + 1)
       IN [ idx |-> rest.idx,
            items |-> << [ action |-> ops[i].op, id |-> ops[i].id,
                           error |-> IF fails THEN [ reason |-> "refused", item |-> i ]
                                     ELSE NoError ] >> \o rest.items ]

\* items.map((i) => i.index?.error || i.update?.error).filter((f) => f !== undefined)
elBulkErrors(items) ==
  SelectSeq([ i \in DOMAIN items |->
                IF items[i].action \in { "index", "update" } THEN items[i].error ELSE NoError ],
            LAMBDA f : f # NoError)

\* then: result.body.errors makes the call throw, with the errors collected.
elBulkThen(items) ==
  IF \E i \in DOMAIN items : items[i].error # NoError
  THEN [ err |-> "DatabaseError", message |-> "Error executing bulk indexing",
         errors |-> elBulkErrors(items) ]
  ELSE [ err |-> "none", message |-> "", errors |-> << >> ]

\* catch: what the request or then has thrown is wrapped in a DatabaseError, which
\* holds the first error and so the errors it carries.
elBulkCatch(r) ==
  IF r.err = "none" THEN r
  ELSE [ err |-> "DatabaseError", message |-> "Error updating elastic", errors |-> r.errors ]

elBulkAnswered(response) ==
  Spread(elBulkCatch(elBulkThen(response.items)),
         [ idx |-> response.idx, items |-> response.items ])

\* A bulk whose failed items would leave the store as it was before the bulk.
elBulkAllOrNothing(idx, body, refused) ==
  IF elBulkAnswered(BulkResponse(idx, body, refused, 1)).err # "none"
  THEN Spread(elBulkAnswered(BulkResponse(idx, body, refused, 1)), [ idx |-> idx ])
  ELSE elBulkAnswered(BulkResponse(idx, body, refused, 1))

\* elBulk with the operations the engine refuses: [err, message, errors, idx, items].
elBulkRefusing(idx, body, refused) == elBulkAnswered(BulkResponse(idx, body, refused, 1))

\* ------------------------------------------------------------------------
\* Write/Update Orchestrator: elIndexElements
\* ------------------------------------------------------------------------
IndexOps(transformedElements) ==
  [ i \in DOMAIN transformedElements |->
      [ op |-> "index", idx |-> transformedElements[i].idx,
        id |-> transformedElements[i].internal_id, doc |-> transformedElements[i] ] ]

\* The impacts of one relationship: the sides whose role is impacted receive the id
\* of the opposite element.
ImpactsOf(e) ==
  (IF isImpactedRole(e.fromRole)
   THEN << [ from |-> e.fromId, relationshipType |-> e.entity_type, to |-> e.to, entity |-> e.from ] >>
   ELSE <<>>)
  \o (IF isImpactedRole(e.toRole)
      THEN << [ from |-> e.toId, relationshipType |-> e.entity_type, to |-> e.from, entity |-> e.to ] >>
      ELSE <<>>)

impactedEntities(elements) ==
  FlattenSeq([ i \in DOMAIN SelectSeq(elements, LAMBDA e : e.base_type = BASE_TYPE_RELATION) |->
                 ImpactsOf(SelectSeq(elements, LAMBDA e : e.base_type = BASE_TYPE_RELATION)[i]) ])

\* The scripted update of one impacted element: per relationship type, create the
\* field if absent and append the new ids.
ImpactUpdateOp(impacts, entityId) ==
  LET targets == SelectSeq(impacts, LAMBDA i : i.from = entityId)
      relTypes == UniqSeq([ i \in DOMAIN targets |-> targets[i].relationshipType ])
      idsOf(relType) ==
        LET data == SelectSeq(targets, LAMBDA t : t.relationshipType = relType)
        IN [ i \in DOMAIN data |-> data[i].to.internal_id ]
      entity == targets[Len(targets)].entity
  IN [ op |-> "update", idx |-> entity.idx, id |-> entityId,
       script |-> addAllScript([ i \in DOMAIN relTypes |->
                    [ field |-> buildRefRelationKey(relTypes[i]), ids |-> idsOf(relTypes[i]) ] ]) ]

ImpactUpdateOps(elements) ==
  LET impacts == impactedEntities(elements)
      entityIds == UniqSeq([ i \in DOMAIN impacts |-> impacts[i].from ])
  IN [ i \in DOMAIN entityIds |-> ImpactUpdateOp(impacts, entityIds[i]) ]

\* elIndexElements: [err, idx, cache, bulks, cacheDels].
elIndexElementsUpdated(cache, bodyUpdate, bulks, updated) ==
  [ err |-> updated.err, idx |-> updated.idx,
    cache |-> cacheDel(cache, { bodyUpdate[i].id : i \in DOMAIN bodyUpdate }),
    bulks |-> bulks + 1, cacheDels |-> 1 ]

elIndexElementsImpacts(cache, indexed, bulks, bodyUpdate) ==
  IF indexed.err # "none" \/ bodyUpdate = <<>>
  THEN [ err |-> indexed.err, idx |-> indexed.idx, cache |-> cache, bulks |-> bulks,
         cacheDels |-> 0 ]
  ELSE elIndexElementsUpdated(cache, bodyUpdate, bulks, elBulk(indexed.idx, bodyUpdate))

elIndexElementsBody(idx, cache, elements, body) ==
  elIndexElementsImpacts(cache,
                         IF body # <<>> THEN elBulk(idx, body) ELSE [ err |-> "none", idx |-> idx ],
                         IF body # <<>> THEN 1 ELSE 0,
                         ImpactUpdateOps(elements))

\* A writer that indexes the documents it could encode before it raises.
elIndexElementsWritingFirst(idx, cache, elements) ==
  LET good == SelectSeq(elements, LAMBDA e : ~prepareIndexingFails(<< e >>))
  IN IF prepareIndexingFails(elements)
     THEN [ elIndexElementsBody(idx, cache, good, IndexOps(prepareIndexing(good)))
              EXCEPT !.err = "DatabaseError" ]
     ELSE elIndexElementsBody(idx, cache, elements, IndexOps(prepareIndexing(elements)))

elIndexElements(idx, cache, elements) ==
  IF prepareIndexingFails(elements)
  THEN [ err |-> "DatabaseError", idx |-> idx, cache |-> cache, bulks |-> 0, cacheDels |-> 0 ]
  ELSE elIndexElementsBody(idx, cache, elements, IndexOps(prepareIndexing(elements)))

\* ------------------------------------------------------------------------
\* Cascading Deletion Engine: the operations on the index
\* ------------------------------------------------------------------------
DeleteOps(instances) ==
  [ i \in DOMAIN instances |->
      [ op |-> "delete", idx |-> instances[i].idx, id |-> instances[i].internal_id ] ]

\* elDeleteInstanceIds: [err, idx, cache, searches, bulks, cacheGets, cacheSets,
\* cacheDels]; nothing is sent for an empty list.
elDeleteInstanceIdsBulk(cache, instances, r) ==
  [ err |-> r.err, idx |-> r.idx,
    cache |-> cacheDel(cache, { instances[i].internal_id : i \in DOMAIN instances }),
    searches |-> 0, bulks |-> 1, cacheGets |-> 0, cacheSets |-> 0, cacheDels |-> 1 ]

\* elDeleteInstanceIds without its test of the list's length.
elDeleteInstanceIdsUnguarded(idx, cache, instances) ==
  elDeleteInstanceIdsBulk(cache, instances, elBulk(idx, DeleteOps(instances)))

elDeleteInstanceIds(idx, cache, instances) ==
  IF Len(instances) > 0
  THEN elDeleteInstanceIdsBulk(cache, instances, elBulk(idx, DeleteOps(instances)))
  ELSE [ err |-> "none", idx |-> idx, cache |-> cache, searches |-> 0, bulks |-> 0,
         cacheGets |-> 0, cacheSets |-> 0, cacheDels |-> 0 ]

\* The updates of one { relation, isFromCleanup, isToCleanup }: on each side to clean
\* whose index was resolved, remove the id of the opposite side from rel_<type>.
CleanupOps(indexCache, r) ==
  LET type == buildRefRelationKey(r.relation.entity_type)
      fromOk == r.isFromCleanup /\ r.relation.fromId \in DOMAIN indexCache
      toOk == r.isToCleanup /\ r.relation.toId \in DOMAIN indexCache
  IN (IF fromOk
      THEN << [ op |-> "update", idx |-> indexCache[r.relation.fromId], id |-> r.relation.fromId,
                script |-> removeIfScript(type, r.relation.toId) ] >>
      ELSE <<>>)
     \o (IF toOk
         THEN << [ op |-> "update", idx |-> indexCache[r.relation.toId], id |-> r.relation.toId,
                   script |-> removeIfScript(type, r.relation.fromId) ] >>
         ELSE <<>>)

idsToResolve(relsFromTo) ==
  UniqSeq(FlattenSeq([ i \in DOMAIN relsFromTo |->
    (IF relsFromTo[i].isFromCleanup THEN << relsFromTo[i].relation.fromId >> ELSE <<>>)
    \o (IF relsFromTo[i].isToCleanup THEN << relsFromTo[i].relation.toId >> ELSE <<>>) ]))

\* elRemoveRelationConnection: [err, idx, cache, searches, bulks, cacheGets, cacheSets,
\* cacheDels].
indexCacheOf(dataIds) ==
  [ id \in { dataIds[i].internal_id : i \in DOMAIN dataIds } |->
      dataIds[CHOOSE i \in DOMAIN dataIds : dataIds[i].internal_id = id].idx ]

elRemoveRelationConnectionBulk(found, r) ==
  [ err |-> r.err, idx |-> r.idx,
    cache |-> cacheDel(found.cache, { found.hits[i].internal_id : i \in DOMAIN found.hits }),
    searches |-> found.searches, bulks |-> 1, cacheGets |-> found.cacheGets,
    cacheSets |-> found.cacheSets, cacheDels |-> 1 ]

bodyUpdateOf(relsFromTo, indexCache) ==
  FlattenSeq([ i \in DOMAIN relsFromTo |-> CleanupOps(indexCache, relsFromTo[i]) ])

elRemoveRelationConnectionFound(idx, relsFromTo, found) ==
  IF found.err # "none"
  THEN [ err |-> found.err, idx |-> idx, cache |-> found.cache, searches |-> found.searches,
         bulks |-> 0, cacheGets |-> found.cacheGets, cacheSets |-> found.cacheSets,
         cacheDels |-> 0 ]
  ELSE elRemoveRelationConnectionBulk(found,
         elBulk(idx, bodyUpdateOf(relsFromTo, indexCacheOf(found.hits))))

elRemoveRelationConnection(user, idx, on, cache, relsFromTo) ==
  IF Len(relsFromTo) > 0
  THEN elRemoveRelationConnectionFound(idx, relsFromTo,
         elFindByIds(user, idx, on, cache, idsToResolve(relsFromTo), READ_DATA_INDICES, NullId))
  ELSE [ err |-> "none", idx |-> idx, cache |-> cache, searches |-> 0, bulks |-> 0,
         cacheGets |-> 0, cacheSets |-> 0, cacheDels |-> 0 ]

\* ------------------------------------------------------------------------
\* State
\* ------------------------------------------------------------------------
VARIABLES
  index,     \* the engine's documents: internal id -> document
  cache,     \* the read-through cache: internal id -> element
  useCache,  \* whether the cache is enabled (redis:use_as_cache)
  io,        \* the call in progress or last completed: its name, the size of its input,
             \* the requests it sent, its error; and the number of deletion calls made
  del,       \* the elDeleteElements call in progress
  rd,        \* the last read call and its result
  lst,       \* the elList call in progress
  cdc,       \* the relation codec: element, encoded document, decoded element
  blk        \* the last elBulk call: its operations, the engine's response, its error

vars == << index, cache, useCache, io, del, rd, lst, cdc, blk >>

NoIo == [ op |-> "none", searches |-> 0, bulks |-> 0, cacheGets |-> 0, cacheSets |-> 0,
          cacheDels |-> 0, loads |-> 0, err |-> "none", calls |-> 0, input |-> 0 ]

NoUser == [ capabilities |-> {}, allowed_marking |-> {}, all_marking |-> {} ]

NoDel == [ pc |-> "idle", user |-> NoUser, elements |-> <<>>, pending |-> <<>>,
           relationsToRemove |-> <<>>, relationsToRemoveMap |-> {}, passes |-> 0,
           dependencyDeletions |-> <<>>, groupsOfRelsFromTo |-> <<>>, groupsOfDeletions |-> <<>> ]

NoRd ==
  [ op |-> "none", user |-> NoUser, interval |-> NullId, err |-> "none", ids |-> {},
    searches |-> 0, queries |-> << >> ]

NoLst == [ pc |-> "idle" ]

NoCdc == [ pc |-> "idle" ]

NoBlk == [ pc |-> "idle" ]

\* ------------------------------------------------------------------------
\* Cascading Deletion Engine: elDeleteElements, one action per awaited phase
\* ------------------------------------------------------------------------
\* Bound of the model on the depth of the recursive discovery.
MaxLevel == 3

\* cache[f] in getRelatedRelations reads a property of the Map object; Map.set
\* defines no property, so the read gives undefined whatever was set.
mapProperty(map, f) == Null

\* One call getRelatedRelations(user, targetIds, elements, level, cache), up to the
\* recursive calls it schedules: [err, elements, cache, foundRelations, searches].
unshiftedRelations(groupResults, level) ==
  FlattenSeq([ i \in DOMAIN groupResults |->
                 [ j \in DOMAIN groupResults[Len(groupResults) + 1 - i] |->
                     Spread(groupResults[Len(groupResults) + 1 - i][j], [ level |-> level ]) ] ])

resolvedIds(subRels, map) ==
  SelectSeq([ i \in DOMAIN subRels |-> subRels[i].internal_id ],
            LAMBDA f : mapProperty(map, f) = Null)

getRelatedRelationsFound(elements, map, listed, unshifted, foundRelations) ==
  [ err |-> listed.err, elements |-> unshifted \o elements,
    cache |-> map \cup Range(foundRelations), foundRelations |-> foundRelations,
    searches |-> listed.searches ]

getRelatedRelationsGroups(elements, level, map, listed, groupResults) ==
  getRelatedRelationsFound(elements, map, listed, unshiftedRelations(groupResults, level),
    FlattenSeq([ i \in DOMAIN groupResults |-> resolvedIds(groupResults[i], map) ]))

getRelatedRelationsHits(elements, level, map, listed) ==
  getRelatedRelationsGroups(elements, level, map, listed,
                            splitEvery(MAX_JS_PARAMS, listed.listing))

getRelatedRelations(user, idx, targetIds, elements, level, map) ==
  getRelatedRelationsHits(elements, level, map,
    elList(user, idx, READ_RELATIONSHIPS_INDICES,
           [ filters |-> << [ nested |-> << [ key |-> "internal_id", values |-> targetIds ] >>,
                              key |-> "connections" ] >>,
             connectionFormat |-> FALSE,
             types |-> << ABSTRACT_BASIC_RELATIONSHIP >> ]))

\* The recursive calls a call schedules: one per group of MAX_SPLIT found ids.
ScheduledCalls(foundRelations, level) ==
  LET groups == splitEvery(MAX_SPLIT, foundRelations)
  IN [ i \in DOMAIN groups |-> [ ids |-> groups[i], level |-> level + 1 ] ]

\* The elements a caller passes: stored documents as a read has returned them.
LoadedElement(idx, id) == elDataConverter([ source |-> idx[id], sort |-> Null ])

relsFromToImpacts(elements, relations, map) ==
  LET basicCleanup == SelectSeq(elements, LAMBDA f : isBasicRelationship(f.entity_type))
      cleanupRelations == relations \o basicCleanup
      impact(r) ==
        [ relation |-> r,
          isFromCleanup |-> r.fromId \notin map /\ isImpactedTypeAndSide(r.entity_type, ROLE_FROM),
          isToCleanup |-> r.toId \notin map /\ isImpactedTypeAndSide(r.entity_type, ROLE_TO) ]
  IN SelectSeq([ i \in DOMAIN cleanupRelations |-> impact(cleanupRelations[i]) ],
               LAMBDA r : r.isFromCleanup \/ r.isToCleanup)

\* The loader collaborator: the relationship in its fully decoded form.
stixLoadById(user, idx, id) == id

\* The phase that follows the discovery or a finished phase: a phase without group
\* completes at once.
PhaseAfter(groupsOfRelsFromTo, groupsOfDeletions) ==
  IF groupsOfRelsFromTo # <<>> THEN "cleanup"
  ELSE IF groupsOfDeletions # <<>> THEN "delete_rels"
  ELSE "delete_targets"

RemoveAt(s, i) == SubSeq(s, 1, i - 1) \o SubSeq(s, i + 1, Len(s))

\* elDeleteElements(user, elements, loaders): the call. An empty list returns [].
ElDeleteElements(user, elements) ==
  /\ del.pc = "idle"
  /\ IF Len(elements) = 0
     THEN del' = [ NoDel EXCEPT !.pc = "done", !.user = user ]
     ELSE del' = [ NoDel EXCEPT !.pc = "discover", !.user = user, !.elements = elements,
                     !.pending = << [ ids |-> [ i \in DOMAIN elements |-> elements[i].internal_id ],
                                     level |-> 0 ] >> ]
  /\ io' = [ NoIo EXCEPT !.op = "elDeleteElements", !.calls = io.calls + 1,
                         !.input = Len(elements) ]
  /\ UNCHANGED << index, cache, useCache, rd, lst, cdc, blk >>

\* One getRelatedRelations call of the recursive discovery.
DelDiscovered(r, pending) ==
  /\ io' = [ io EXCEPT !.searches = @ + r.searches, !.err = r.err ]
  /\ del' = IF r.err # "none" THEN [ del EXCEPT !.pc = "failed" ]
            ELSE [ del EXCEPT !.pending = pending,
                              !.relationsToRemove = r.elements,
                              !.relationsToRemoveMap = r.cache,
                              !.passes = @ + 1,
                              !.pc = IF pending = <<>> THEN "load" ELSE "discover" ]

DelDiscoverCall(i, level, r) ==
  DelDiscovered(r, RemoveAt(del.pending, i) \o ScheduledCalls(r.foundRelations, level))

DelDiscover ==
  /\ del.pc = "discover"
  /\ \E i \in 1..Min(Len(del.pending), ES_MAX_CONCURRENCY) :
       /\ del.pending[i].level <= MaxLevel
       /\ DelDiscoverCall(i, del.pending[i].level,
                          getRelatedRelations(del.user, index, del.pending[i].ids,
                                              del.relationsToRemove, del.pending[i].level,
                                              del.relationsToRemoveMap))
  /\ UNCHANGED << index, cache, useCache, rd, lst, cdc, blk >>

\* The relationships to notify are loaded, then the cleanups are computed.
DelLoaded(stixRelations, groupsOfRelsFromTo, groupsOfDeletions) ==
  /\ del' = [ del EXCEPT
                !.dependencyDeletions =
                   [ i \in DOMAIN stixRelations |->
                       stixLoadById(del.user, index, stixRelations[i].internal_id) ],
                !.groupsOfRelsFromTo = groupsOfRelsFromTo,
                !.groupsOfDeletions = groupsOfDeletions,
                !.pc = PhaseAfter(groupsOfRelsFromTo, groupsOfDeletions) ]
  /\ io' = [ io EXCEPT !.loads = @ + Len(stixRelations) ]

\* The relations kept as they are, meta relationships included.
stixRelationsUnfiltered(relations) == relations

\* relations.filter((r) => isStixRelationShipExceptMeta(r.relationship_type))
stixRelationsOf(relations) ==
  SelectSeq(relations, LAMBDA r : isStixRelationShipExceptMeta(r.relationship_type))

DelLoad ==
  /\ del.pc = "load"
  /\ DelLoaded(stixRelationsOf(del.relationsToRemove),
               splitEvery(MAX_SPLIT, relsFromToImpacts(del.elements, del.relationsToRemove,
                                                       del.relationsToRemoveMap)),
               splitEvery(MAX_SPLIT, del.relationsToRemove))
  /\ UNCHANGED << index, cache, useCache, rd, lst, cdc, blk >>

\* The effect of the requests of one awaited step on the store and on the log.
DelRequests(r) ==
  /\ index' = r.idx
  /\ cache' = r.cache
  /\ io' = [ io EXCEPT !.searches = @ + r.searches, !.bulks = @ + r.bulks,
                       !.cacheGets = @ + r.cacheGets, !.cacheSets = @ + r.cacheSets,
                       !.cacheDels = @ + r.cacheDels, !.err = r.err ]

\* One group of denormalized-reference cleanups (elRemoveRelationConnection).
DelCleaned(r, left) ==
  /\ DelRequests(r)
  /\ del' = IF r.err # "none" THEN [ del EXCEPT !.pc = "failed" ]
            ELSE [ del EXCEPT !.groupsOfRelsFromTo = left,
                              !.pc = PhaseAfter(left, del.groupsOfDeletions) ]

DelCleanup ==
  /\ del.pc = "cleanup"
  /\ \E i \in 1..Min(Len(del.groupsOfRelsFromTo), ES_MAX_CONCURRENCY) :
       DelCleaned(elRemoveRelationConnection(del.user, index, useCache, cache,
                                             del.groupsOfRelsFromTo[i]),
                  RemoveAt(del.groupsOfRelsFromTo, i))
  /\ UNCHANGED << useCache, rd, lst, cdc, blk >>

\* One group of relationship deletions (elDeleteInstanceIds).
DelDeletedRelations(r, left) ==
  /\ DelRequests(r)
  /\ del' = IF r.err # "none" THEN [ del EXCEPT !.pc = "failed" ]
            ELSE [ del EXCEPT !.groupsOfDeletions = left, !.pc = PhaseAfter(<<>>, left) ]

DelDeleteRelations ==
  /\ del.pc = "delete_rels"
  /\ \E i \in 1..Min(Len(del.groupsOfDeletions), ES_MAX_CONCURRENCY) :
       DelDeletedRelations(elDeleteInstanceIds(index, cache, del.groupsOfDeletions[i]),
                           RemoveAt(del.groupsOfDeletions, i))
  /\ UNCHANGED << useCache, rd, lst, cdc, blk >>

\* The deletion of the target elements, which ends the call.
DelDeletedTargets(r) ==
  /\ DelRequests(r)
  /\ del' = [ del EXCEPT !.pc = IF r.err # "none" THEN "failed" ELSE "done" ]

DelDeleteTargets ==
  /\ del.pc = "delete_targets"
  /\ DelDeletedTargets(elDeleteInstanceIds(index, cache, del.elements))
  /\ UNCHANGED << useCache, rd, lst, cdc, blk >>

\* The call has returned (or raised); the next call can start.
DelReturn ==
  /\ del.pc \in { "done", "failed" }
  /\ del' = NoDel
  /\ UNCHANGED << index, cache, useCache, io, rd, lst, cdc, blk >>

\* ------------------------------------------------------------------------
\* Specification of the store under indexing and cascading deletion
\* ------------------------------------------------------------------------
EntityIds == { "e1", "e2" }

RelIds == { "r1", "r2" }

MarkingM1 == [ internal_id |-> "m1", definition_type |-> "TLP" ]

MarkingM2 == [ internal_id |-> "m2", definition_type |-> "TLP" ]

MarkingM3 == [ internal_id |-> "m3", definition_type |-> "statement" ]

StandardIdOf(id) ==
  CASE id = "e1" -> "std-c" [] id = "e2" -> "std-a" [] id = "e3" -> "std-e"
    [] id = "r1" -> "std-d" [] id = "r2" -> "std-b" [] id = "r3" -> "std-f"

EntityDoc(id, type, markings, createdAt) ==
  [ idx |-> IndexOf(BASE_TYPE_ENTITY), internal_id |-> id, standard_id |-> StandardIdOf(id),
    name |-> id, base_type |-> BASE_TYPE_ENTITY, entity_type |-> type, created_at |-> createdAt,
    rel |-> [ NoRefs EXCEPT ![buildRefRelationKey(RELATION_OBJECT_MARKING)] = markings ] ]

\* A relationship as given to elIndexElements, with its resolved endpoints.
RelationElement(id, type, from, to, fromRole, toRole) ==
  [ idx |-> IndexOf(BASE_TYPE_RELATION), internal_id |-> id, standard_id |-> StandardIdOf(id),
    name |-> id, base_type |-> BASE_TYPE_RELATION, entity_type |-> type, created_at |-> 0,
    rel |-> NoRefs,
    from |-> from, fromId |-> IF from = NullElement THEN NullId ELSE from.internal_id,
    fromRole |-> fromRole,
    to |-> to, toId |-> IF to = NullElement THEN NullId ELSE to.internal_id, toRole |-> toRole ]

\* The element a caller has resolved for an id: the stored document, or for a
\* relationship of the same batch the element being written.
ResolvedEndpoint(idx, id, type) ==
  IF id \in DOMAIN idx THEN idx[id]
  ELSE [ idx |-> IndexOf(BASE_TYPE_RELATION), internal_id |-> id, name |-> id, entity_type |-> type ]

AdminUser == [ capabilities |-> { BYPASS }, allowed_marking |-> {}, all_marking |-> { MarkingM1 } ]

RestrictedUser == [ capabilities |-> {}, allowed_marking |-> {}, all_marking |-> { MarkingM1 } ]

DeleteUsers == { AdminUser, RestrictedUser }

\* Bound of the model on the number of target elements of one deletion.
MaxTargets == 2

\* Bound of the model on the number of deletion calls made on one store.
MaxDeletions == 1

InitDelete ==
  /\ \E m1 \in { Null, << "m1" >> } :
       index = [ id \in EntityIds |->
                   EntityDoc(id, "Malware", IF id = "e1" THEN m1 ELSE Null, 0) ]
  /\ cache = << >>
  /\ useCache = FALSE
  /\ io = NoIo
  /\ del = NoDel
  /\ rd = NoRd
  /\ lst = NoLst
  /\ cdc = NoCdc
  /\ blk = NoBlk

RelTypesIndexed == { RELATION_RELATED_TO, RELATION_INDICATES }

\* elIndexElements(elements) for a batch of relationships.
ElIndexElementsDone(input, r) ==
  /\ index' = r.idx
  /\ cache' = r.cache
  /\ io' = [ NoIo EXCEPT !.op = "elIndexElements", !.bulks = r.bulks,
                         !.cacheDels = r.cacheDels, !.err = r.err, !.calls = io.calls,
                         !.input = input ]

ElIndexElements(elements) ==
  /\ del.pc = "idle"
  /\ ElIndexElementsDone(Len(elements), elIndexElements(index, cache, elements))
  /\ UNCHANGED << useCache, del, rd, lst, cdc, blk >>

\* The batches written in the model: one relationship between two stored elements
\* (r1 with or without the marking m1), two relationships of which each may have
\* the other as an endpoint, or the meta relationship alone or with a second
\* relationship.
OneRelation(id, others) ==
  { RelationElement(id, type, ResolvedEndpoint(index, f, type), ResolvedEndpoint(index, t, type),
                    RoleOf(type, ROLE_FROM), RoleOf(type, ROLE_TO)) :
      type \in RelTypesIndexed,
      f \in (DOMAIN index \cup others) \ { id },
      t \in (DOMAIN index \cup others) \ { id } }

\* The meta relationship of the model: r1, an object-marking from e1 to e2.
MetaRelation ==
  RelationElement("r1", RELATION_OBJECT_MARKING,
                  ResolvedEndpoint(index, "e1", RELATION_OBJECT_MARKING),
                  ResolvedEndpoint(index, "e2", RELATION_OBJECT_MARKING),
                  RoleOf(RELATION_OBJECT_MARKING, ROLE_FROM),
                  RoleOf(RELATION_OBJECT_MARKING, ROLE_TO))

IndexBatches ==
  LET free == RelIds \ DOMAIN index
  IN { << a >> : a \in UNION { OneRelation(id, {}) : id \in free } }
     \cup { << MetaRelation >> }
     \cup { << MetaRelation, b >> : b \in OneRelation("r2", { "r1" }) }
     \cup { << [ a EXCEPT !.rel[buildRefRelationKey(RELATION_OBJECT_MARKING)] = << "m1" >> ] >> :
              a \in OneRelation("r1", {}) }
     \cup { << a, b >> : a \in OneRelation("r1", { "r2" }), b \in OneRelation("r2", { "r1" }) }

\* Relationships are written to the initial store, before any deletion.
IndexRelations ==
  \E elements \in IndexBatches :
    /\ DOMAIN index = EntityIds
    /\ io.calls = 0
    /\ \A i \in DOMAIN elements : elements[i].internal_id \notin DOMAIN index
    /\ \A i \in DOMAIN elements : elements[i].fromId # elements[i].toId
    /\ ElIndexElements(elements)

TargetLists ==
  { SetToSeq(S) : S \in { T \in SUBSET (DOMAIN index) : Cardinality(T) <= MaxTargets } }

DeleteElements ==
  \E user \in DeleteUsers, ids \in TargetLists :
    /\ io.calls < MaxDeletions
    /\ ElDeleteElements(user, [ i \in DOMAIN ids |-> LoadedElement(index, ids[i]) ])

\* elDeleteInstanceIds(instances) called on its own.
ElDeleteInstanceIdsDone(input, r) ==
  /\ index' = r.idx
  /\ cache' = r.cache
  /\ io' = [ NoIo EXCEPT !.op = "elDeleteInstanceIds", !.bulks = r.bulks,
                         !.cacheDels = r.cacheDels, !.err = r.err, !.calls = io.calls + 1,
                         !.input = input ]

ElDeleteInstanceIds(instances) ==
  /\ del.pc = "idle"
  /\ ElDeleteInstanceIdsDone(Len(instances), elDeleteInstanceIds(index, cache, instances))
  /\ UNCHANGED << useCache, del, rd, lst, cdc, blk >>

DeleteInstanceIds ==
  \E ids \in TargetLists :
    /\ io.calls < MaxDeletions
    /\ ElDeleteInstanceIds([ i \in DOMAIN ids |-> LoadedElement(index, ids[i]) ])

NextDelete ==
  \/ IndexRelations
  \/ DeleteElements
  \/ DelDiscover
  \/ DelLoad
  \/ DelCleanup
  \/ DelDeleteRelations
  \/ DelDeleteTargets
  \/ DelReturn
  \/ DeleteInstanceIds

SpecDelete == InitDelete /\ [][NextDelete]_vars

\* ------------------------------------------------------------------------
\* Properties of the cascading deletion
\* ------------------------------------------------------------------------
RelationshipIdsStored == { id \in DOMAIN index : index[id].base_type = BASE_TYPE_RELATION }

\* The ids the call in progress deletes: its targets and the relationships found.
DeletedIds ==
  { del.elements[i].internal_id : i \in DOMAIN del.elements }
  \cup { del.relationsToRemove[i].internal_id : i \in DOMAIN del.relationsToRemove }

NoDuplicate(s) == \A i, j \in DOMAIN s : i # j => s[i] # s[j]

\* C2: during the discovery of elDeleteElements every relationship is recorded in the
\* removal list exactly once and is put in a frontier at most once, even when it is
\* reachable through several paths. (Stated as the claim has it; the code does not
\* keep it: a relationship found again at a deeper level is recorded and queued again.)
C2_RelationshipRecordedOnce ==
  /\ NoDuplicate([ i \in DOMAIN del.relationsToRemove |-> del.relationsToRemove[i].internal_id ])
  /\ \A c \in DOMAIN del.pending : NoDuplicate(del.pending[c].ids)

\* C3: the recursive discovery terminates on every finite relationship graph, cycles
\* of relationships included: a relationship is queued once, so no call is scheduled
\* deeper than the number of stored relationships. (Stated as the claim has it; on a
\* cycle of relationships the code schedules a deeper call for ever.)
C3_DiscoveryDepthBounded ==
  \A c \in DOMAIN del.pending : del.pending[c].level <= Cardinality(RelationshipIdsStored)

\* C4: after elDeleteElements completes successfully no surviving document's rel_<type>
\* field contains the id of an element deleted by the call, for every deleting user
\* and every marking of the surviving endpoints. (Stated as the claim has it; the code
\* does not clean an endpoint that the deleting user cannot see.)
C4_NoDeletedIdInReferences ==
  del.pc = "done" =>
    \A id \in DOMAIN index : \A k \in RefKeys :
      index[id].rel[k] # Null => Range(index[id].rel[k]) \cap DeletedIds = {}

\* The ids a cleanup of the group may remove from field k of document id: the opposite
\* endpoints of the group's relationships of k's type that have id as the endpoint to
\* clean.
OppositeIds(group, id, k) ==
  { group[j].relation.toId :
      j \in { j \in DOMAIN group : /\ group[j].isFromCleanup
                                  /\ group[j].relation.fromId = id
                                  /\ buildRefRelationKey(group[j].relation.entity_type) = k } }
  \cup { group[j].relation.fromId :
           j \in { j \in DOMAIN group : /\ group[j].isToCleanup
                                       /\ group[j].relation.toId = id
                                       /\ buildRefRelationKey(group[j].relation.entity_type) = k } }

\* after is before without some of the removable ids, the rest kept in order.
SurgicalEdit(before, after, removable) ==
  IF before = Null THEN after = Null
  ELSE \E R \in SUBSET removable : after = SelectSeq(before, LAMBDA x : x \notin R)

\* C5: a cleanup step of elDeleteElements removes from a surviving endpoint's field of
\* the removed relationship's type only the id of the opposite endpoint; the other ids
\* of the field, the other fields of the document and the other documents are unchanged.
C5_CleanupIsSurgical ==
  [][ del.pc = "cleanup" =>
        \E g \in 1..Min(Len(del.groupsOfRelsFromTo), ES_MAX_CONCURRENCY) :
          /\ DOMAIN index' = DOMAIN index
          /\ \A id \in DOMAIN index :
               /\ [ index'[id] EXCEPT !.rel = index[id].rel ] = index[id]
               /\ \A k \in RefKeys :
                    SurgicalEdit(index[id].rel[k], index'[id].rel[k],
                                 OppositeIds(del.groupsOfRelsFromTo[g], id, k)) ]_vars

\* C5's case: the cleanups of a deleted relationship are done, and an endpoint of it
\* has lost the opposite endpoint's id and kept another id in the same field.
C5_CleanedAndKept ==
  /\ del.pc = "delete_targets"
  /\ io.bulks > 0
  /\ \E j \in DOMAIN del.elements :
       /\ isBasicRelationship(del.elements[j].entity_type)
       /\ del.elements[j].toId \in DOMAIN index
       /\ LET field == index[del.elements[j].toId].rel[buildRefRelationKey(del.elements[j].entity_type)]
          IN /\ field # Null
             /\ field # <<>>
             /\ del.elements[j].fromId \notin Range(field)

NoRequest(log) ==
  /\ log.searches = 0
  /\ log.bulks = 0
  /\ log.cacheGets = 0
  /\ log.cacheSets = 0
  /\ log.cacheDels = 0
  /\ log.loads = 0

\* C6: elDeleteElements called with an empty list, and elDeleteInstanceIds called with
\* an empty list, send no request to the engine or to the cache, leave every stored
\* document unchanged and run no deletion phase.
C6_EmptyDeletionSendsNothing ==
  [][ (io'.calls = io.calls + 1 /\ io'.input = 0) =>
        /\ index' = index
        /\ cache' = cache
        /\ NoRequest(io')
        /\ io'.err = "none"
        /\ del'.pc \in { "idle", "done" } ]_vars

\* C6's case: elDeleteElements has returned from a call with an empty list.
C6_EmptyListDeleted ==
  /\ io.op = "elDeleteElements"
  /\ io.input = 0
  /\ del.pc = "done"

\* ------------------------------------------------------------------------
\* Specification of the read operations under the access filter
\* ------------------------------------------------------------------------
UserNoMarking ==
  [ capabilities |-> {}, allowed_marking |-> {}, all_marking |-> { MarkingM1, MarkingM2 } ]

UserM1 ==
  [ capabilities |-> {}, allowed_marking |-> { MarkingM1 },
    all_marking |-> { MarkingM1, MarkingM2, MarkingM3 } ]

\* A user whose all_marking does not hold every marking of the platform.
UserM1Only ==
  [ capabilities |-> {}, allowed_marking |-> { MarkingM1 }, all_marking |-> { MarkingM1 } ]

AccessUsers == { AdminUser, UserNoMarking, UserM1, UserM1Only }

MarkingLists == { Null, << "m1" >>, << "m2" >>, << "m1", "m3" >> }

AccessStore(m1, mr) ==
  elIndexElements(
    [ id \in EntityIds |->
        IF id = "e1" THEN EntityDoc(id, "Malware", m1, 20200115)
        ELSE EntityDoc(id, "Report", Null, 20210320) ],
    << >>,
    << [ RelationElement("r1", RELATION_RELATED_TO,
                         EntityDoc("e1", "Malware", m1, 20200115),
                         EntityDoc("e2", "Report", Null, 20210320),
                         RoleOf(RELATION_RELATED_TO, ROLE_FROM),
                         RoleOf(RELATION_RELATED_TO, ROLE_TO))
         EXCEPT !.rel[buildRefRelationKey(RELATION_OBJECT_MARKING)] = mr ] >>).idx

InitAccess ==
  /\ \E s \in (MarkingLists \X { Null }) \cup { << Null, << "m2" >> >> } :
       index = AccessStore(s[1], s[2])
  /\ cache = << >>
  /\ useCache \in BOOLEAN
  /\ io = NoIo
  /\ del = NoDel
  /\ rd = NoRd
  /\ lst = NoLst
  /\ cdc = NoCdc
  /\ blk = NoBlk

\* The record of a read call: the user, the interval given (elHistogramCount), the
\* error raised, the ids of the elements returned or counted, the number of
\* requests sent and their queries.
ReadRecord(op, user, interval, r, ids) ==
  [ op |-> op, user |-> user, interval |-> interval, err |-> r.err, ids |-> ids,
    searches |-> r.searches, queries |-> r.queries ]

ElementIds(elements) == { elements[i].internal_id : i \in DOMAIN elements }

PaginateOptions ==
  { [ connectionFormat |-> FALSE ],
    [ connectionFormat |-> FALSE, types |-> << "Malware" >> ],
    [ connectionFormat |-> FALSE, ids |-> << "e1", "r1" >> ],
    [ connectionFormat |-> FALSE, orderBy |-> "created_at", orderMode |-> "desc" ],
    [ connectionFormat |-> FALSE,
      filters |-> << [ key |-> "entity_type", values |-> << "Malware", "Report" >> ] >> ] }

ElPaginateReturned(user, r) ==
  /\ rd' = ReadRecord("elPaginate", user, NullId, r, ElementIds(r.value))
  /\ UNCHANGED << index, cache, useCache, io, del, lst, cdc, blk >>

ReadPaginate ==
  \E user \in AccessUsers, options \in PaginateOptions :
    ElPaginateReturned(user, elPaginate(user, index, READ_DATA_INDICES, options))

ElListReturned(user, r) ==
  /\ rd' = ReadRecord("elList", user, NullId, r, ElementIds(r.listing))
  /\ UNCHANGED << index, cache, useCache, io, del, lst, cdc, blk >>

ReadList ==
  \E user \in AccessUsers,
     options \in { [ types |-> << "Stix-Domain-Object" >> ],
                   [ orderBy |-> "created_at", first |-> 1 ] } :
    ElListReturned(user, elList(user, index, READ_DATA_INDICES, options))

\* The record of a lookup by ids also holds the ids, the type and the indices asked.
ElFindByIdsReturned(op, user, ids, type, indices, r) ==
  /\ rd' = Spread(ReadRecord(op, user, NullId, r, ElementIds(r.hits)),
                  [ asked |-> ids, type |-> type, indices |-> indices ])
  /\ cache' = r.cache
  /\ UNCHANGED << index, useCache, io, del, lst, cdc, blk >>

ReadFindByIds ==
  \E user \in AccessUsers,
     call \in { << << "e2", "e1" >>, NullId, READ_DATA_INDICES >>,
                << << "r1", "e1" >>, NullId, READ_DATA_INDICES >>,
                << << "r1", "e1" >>, "Malware", READ_DATA_INDICES >>,
                << << "e2", "e1" >>, NullId, READ_RELATIONSHIPS_INDICES >> } :
    ElFindByIdsReturned("elFindByIds", user, call[1], call[2], call[3],
                        elFindByIds(user, index, useCache, cache, call[1], call[3], call[2]))

ReadLoadById ==
  \E user \in AccessUsers, id \in { "e1", "r1" } :
    ElFindByIdsReturned("elLoadById", user, << id >>, NullId, READ_DATA_INDICES,
                        elLoadById(user, index, useCache, cache, id, NullId, READ_DATA_INDICES))

ElFindByFromAndToReturned(user, r) ==
  /\ rd' = ReadRecord("elFindByFromAndTo", user, NullId, r, ElementIds(r.hits))
  /\ UNCHANGED << index, cache, useCache, io, del, lst, cdc, blk >>

ReadFindByFromAndTo ==
  \E user \in AccessUsers, fromId \in { "e1" }, toId \in EntityIds :
    ElFindByFromAndToReturned(user,
      elFindByFromAndTo(user, index, fromId, toId, RELATION_RELATED_TO))

ElCountReturned(user, r) ==
  /\ rd' = ReadRecord("elCount", user, NullId, r, r.counted)
  /\ UNCHANGED << index, cache, useCache, io, del, lst, cdc, blk >>

ReadCount ==
  \E user \in AccessUsers,
     options \in { [ types |-> << "Malware" >> ], [ fromId |-> "e2" ],
                   [ types |-> << "Stix-Domain-Object" >>, toTypes |-> Null ] } :
    ElCountReturned(user, elCount(user, index, READ_DATA_INDICES, options))

ElHistogramCountReturned(user, interval, r) ==
  /\ rd' = ReadRecord("elHistogramCount", user, interval, r, r.counted)
  /\ UNCHANGED << index, cache, useCache, io, del, lst, cdc, blk >>

ReadHistogramCount ==
  \E user \in AccessUsers,
     call \in ({ "year", "week", NullId } \X { << >> })
              \cup ({ "month", "week" }
                    \X { << [ type |-> "entity_type", value |-> "Malware" ] >> }) :
    ElHistogramCountReturned(user, call[1],
      elHistogramCount(user, index, "Stix-Domain-Object", "created_at", call[1],
                       20200101, 20211231, << >>, call[2]))

ElAggregationCountReturned(user, r) ==
  /\ rd' = ReadRecord("elAggregationCount", user, NullId, r, r.counted)
  /\ UNCHANGED << index, cache, useCache, io, del, lst, cdc, blk >>

ReadAggregationCount ==
  \E user \in AccessUsers,
     call \in { << "Stix-Domain-Object", "entity_type", 0, 0, << >> >>,
                << "Malware", "internal_id", 20200101, 20201231,
                   << [ isRelation |-> TRUE, type |-> RELATION_RELATED_TO, value |-> "e2" ] >> >> } :
    ElAggregationCountReturned(user,
      elAggregationCount(user, index, call[1], call[2], call[3], call[4], call[5]))

ElAggregationRelationsCountReturned(user, r) ==
  /\ rd' = ReadRecord("elAggregationRelationsCount", user, NullId, r, r.counted)
  /\ cache' = r.cache
  /\ UNCHANGED << index, useCache, io, del, lst, cdc, blk >>

ReadAggregationRelationsCount ==
  \E user \in AccessUsers,
     opts \in { [ field |-> "internal_id", fromId |-> "e2" ],
                [ field |-> "entity_type", fromId |-> "e1", toTypes |-> << "Report" >> ],
                [ field |-> "name" ] } :
    ElAggregationRelationsCountReturned(user,
      elAggregationRelationsCount(user, index, useCache, cache, "stix-core-relationship", opts))

ElAttributeValuesReturned(user, r) ==
  /\ rd' = ReadRecord("elAttributeValues", user, NullId, r, r.counted)
  /\ UNCHANGED << index, cache, useCache, io, del, lst, cdc, blk >>

ReadAttributeValues ==
  \E user \in AccessUsers, field \in { "created_at", "standard_id" } :
    ElAttributeValuesReturned(user, elAttributeValues(user, index, field))

NextAccess ==
  \/ ReadAggregationCount
  \/ ReadAggregationRelationsCount
  \/ ReadAttributeValues
  \/ ReadPaginate
  \/ ReadList
  \/ ReadFindByIds
  \/ ReadLoadById
  \/ ReadFindByFromAndTo
  \/ ReadCount
  \/ ReadHistogramCount

SpecAccess == InitAccess /\ [][NextAccess]_vars

\* The markings a stored element carries.
MarkingsOf(id) ==
  IF index[id].rel[buildRefRelationKey(RELATION_OBJECT_MARKING)] = Null THEN {}
  ELSE Range(index[id].rel[buildRefRelationKey(RELATION_OBJECT_MARKING)])

\* C1: for a user without the bypass capability, no read operation returns or counts
\* a stored element that carries a marking id outside the user's allowed_marking,
\* whatever the user's all_marking and the cache hold. (Stated as the claim has it;
\* the code's queries exclude only the markings of all_marking that are not allowed.)
C1_NoReadOutsideAllowedMarkings ==
  (rd.op # "none" /\ ~isBypassUser(rd.user)) =>
    \A id \in rd.ids \cap DOMAIN index :
      MarkingsOf(id) \subseteq { m.internal_id : m \in rd.user.allowed_marking }

\* C8: elHistogramCount called with an interval that is not year, month or day fails
\* with a FunctionalError and sends no request to the engine.
C8_BadIntervalFailsBeforeRequest ==
  (rd.op = "elHistogramCount" /\ rd.interval \notin { "year", "month", "day" }) =>
    (rd.err = "FunctionalError" /\ rd.searches = 0 /\ rd.ids = {})

\* C8's case: elHistogramCount has been called with the interval week.
C8_WeekRefused ==
  /\ rd.op = "elHistogramCount"
  /\ rd.interval = "week"
  /\ rd.err = "FunctionalError"

\* ------------------------------------------------------------------------
\* Specification of listing (elList, step by step) and of paginated reads
\* ------------------------------------------------------------------------
ListIds == { "e1", "e2", "e3" }

CreatedDates == { 20200115, 20210320, 20220710 }

ListDoc(id, createdAt, markings) ==
  EntityDoc(id, IF id = "e3" THEN "Report" ELSE "Malware", markings, createdAt)

ListStore(present, dates, m3) ==
  [ id \in present |-> ListDoc(id, dates[id], IF id = "e3" THEN m3 ELSE Null) ]

InitList ==
  /\ \E present \in { { "e1", "e2" }, ListIds }, dates \in [ ListIds -> CreatedDates ],
        m3 \in { Null, << "m1" >> } :
       index = ListStore(present, dates, m3)
  /\ cache = << >>
  /\ useCache = FALSE
  /\ io = NoIo
  /\ del = NoDel
  /\ rd = NoRd
  /\ lst = NoLst
  /\ cdc = NoCdc
  /\ blk = NoBlk

ListUsers == { AdminUser, UserNoMarking }

\* callback says whether the caller gave a callback.
ListOptions ==
  { [ callback |-> TRUE ],
    [ callback |-> TRUE, first |-> 2 ],
    [ callback |-> TRUE, first |-> 3, orderBy |-> "created_at" ],
    [ callback |-> FALSE ] }

CallbackResults == { "true", "undefined", "false" }

ListPcs == { "loop", "publish", "returned" }

\* elList, entry: the locals before the loop. pages counts the elPaginate requests,
\* callbacks the callback invocations, consumed the items handed to the callback;
\* stopped records that a callback invocation has returned false.
ElListCalled(user, options) ==
  /\ lst' = [ pc |-> "loop", user |-> user, options |-> options,
              hasNextPage |-> TRUE, continueProcess |-> TRUE,
              searchAfter |-> Opt(options, "after", Null),
              elements |-> << >>, last |-> FALSE, listing |-> << >>, err |-> "none",
              pages |-> 0, callbacks |-> 0, consumed |-> 0, stopped |-> FALSE,
              rejected |-> 0, error |-> NoRaise ]
  /\ UNCHANGED << index, cache, useCache, io, del, rd, cdc, blk >>

ElListCall ==
  /\ lst.pc = "idle"
  /\ \E user \in ListUsers, options \in ListOptions : ElListCalled(user, options)

\* One turn of the loop up to the await of publish: the page request and the test
\* on the page read.
ElListPaged(r) ==
  /\ lst' =
       IF r.err # "none"
       THEN [ lst EXCEPT !.pc = "returned", !.err = r.err, !.pages = @ + r.searches ]
       ELSE IF elListIsLastPage(lst.options, r.value)
       THEN IF Len(r.value) > 0
            THEN [ lst EXCEPT !.pc = "publish", !.elements = r.value, !.last = TRUE,
                              !.pages = @ + 1 ]
            ELSE [ lst EXCEPT !.hasNextPage = FALSE, !.pages = @ + 1 ]
       ELSE [ lst EXCEPT !.pc = "publish", !.elements = r.value, !.last = FALSE,
                         !.searchAfter = offsetToCursor(r.value[Len(r.value)].sort),
                         !.pages = @ + 1 ]
  /\ UNCHANGED << index, cache, useCache, io, del, rd, cdc, blk >>

ElListRequest ==
  /\ lst.pc = "loop"
  /\ elListContinues(lst.continueProcess, lst.hasNextPage)
  /\ ElListPaged(elPaginate(lst.user, index, READ_DATA_INDICES,
                            elListOpts(lst.options, lst.searchAfter)))

\* Bound of the model on the number of root causes of an engine error.
MaxCauses == 2

Reasons ==
  { << "no such index", "[opencti_stix_domain_objects]" >>,
    << "No mapping found for", "[created_at] in order to sort on" >>,
    << "Result window is too large" >> }

EngineErrors ==
  { [ name |-> "ResponseError", root_cause |-> c ] :
      c \in UNION { [ 1..n -> Reasons ] : n \in 0..MaxCauses } }

\* One turn of the loop when the engine rejects the page request.
ElListRejected(err, r) ==
  /\ lst' =
       IF r.err # "none"
       THEN [ lst EXCEPT !.pc = "returned", !.err = r.err, !.pages = @ + 1,
                         !.rejected = @ + 1, !.error = err ]
       ELSE [ lst EXCEPT !.hasNextPage = FALSE, !.pages = @ + 1,
                         !.rejected = @ + 1, !.error = err ]
  /\ UNCHANGED << index, cache, useCache, io, del, rd, cdc, blk >>

ElListRequestRejected ==
  /\ lst.pc = "loop"
  /\ elListContinues(lst.continueProcess, lst.hasNextPage)
  /\ \E err \in EngineErrors :
       ElListRejected(err, elPaginateRejected(lst.user, elListOpts(lst.options, lst.searchAfter),
                                              err))

\* publish with a callback: the callback consumes the page and its result decides
\* continueProcess; after the last page hasNextPage is cleared.
ElListCallbackReturned(callbackResult) ==
  /\ lst' = [ lst EXCEPT !.pc = "loop",
                         !.continueProcess = callbackContinues(callbackResult),
                         !.hasNextPage = IF lst.last THEN FALSE ELSE @,
                         !.callbacks = @ + 1,
                         !.consumed = @ + Len(lst.elements),
                         !.stopped = @ \/ callbackResult = "false" ]
  /\ UNCHANGED << index, cache, useCache, io, del, rd, cdc, blk >>

ElListCallback ==
  /\ lst.pc = "publish"
  /\ Opt(lst.options, "callback", FALSE)
  /\ \E callbackResult \in CallbackResults : ElListCallbackReturned(callbackResult)

\* publish without a callback: the page is appended to the listing.
ElListPush ==
  /\ lst.pc = "publish"
  /\ ~Opt(lst.options, "callback", FALSE)
  /\ lst' = [ lst EXCEPT !.pc = "loop", !.listing = @ \o lst.elements,
                         !.hasNextPage = IF lst.last THEN FALSE ELSE @ ]
  /\ UNCHANGED << index, cache, useCache, io, del, rd, cdc, blk >>

ElListReturn ==
  /\ lst.pc = "loop"
  /\ ~elListContinues(lst.continueProcess, lst.hasNextPage)
  /\ lst' = [ lst EXCEPT !.pc = "returned" ]
  /\ UNCHANGED << index, cache, useCache, io, del, rd, cdc, blk >>

\* Another request indexes an element while the listing is between two pages.
IndexWhileListing ==
  /\ lst.pc \in { "loop", "publish" }
  /\ "e3" \notin DOMAIN index
  /\ \E createdAt \in CreatedDates :
       index' = elIndexElements(index, cache, << ListDoc("e3", createdAt, Null) >>).idx
  /\ UNCHANGED << cache, useCache, io, del, rd, lst, cdc, blk >>

\* Two consecutive elPaginate calls of a client over an unchanged corpus: a first
\* page of `first` elements, then the page after the cursor of its last edge.
PageOptions ==
  { [ first |-> k, orderBy |-> o[1], orderMode |-> o[2] ] :
      k \in { 1, 2, ES_MAX_PAGINATION, ES_MAX_PAGINATION + 1 },
      o \in { << "created_at", "asc" >>, << "created_at", "desc" >>, << "standard_id", "asc" >> } }

EdgesOf(r) == IF r.err = "none" THEN r.value.edges ELSE << >>

ElPaginateFirstReturned(user, options, r) ==
  /\ lst' = [ pc |-> "page1", user |-> user, options |-> options, err |-> r.err,
              searches |-> r.searches, first |-> EdgesOf(r), second |-> << >> ]
  /\ UNCHANGED << index, cache, useCache, io, del, rd, cdc, blk >>

ElPaginateFirst ==
  /\ lst.pc = "idle"
  /\ \E user \in ListUsers, options \in PageOptions :
       ElPaginateFirstReturned(user, options,
                               elPaginate(user, index, READ_DATA_INDICES, options))

ElPaginateSecondReturned(r) ==
  /\ lst' = [ lst EXCEPT !.pc = "page2", !.err = r.err, !.searches = @ + r.searches,
                         !.second = EdgesOf(r) ]
  /\ UNCHANGED << index, cache, useCache, io, del, rd, cdc, blk >>

ElPaginateSecond ==
  /\ lst.pc = "page1"
  /\ Len(lst.first) > 0
  /\ ElPaginateSecondReturned(
       elPaginate(lst.user, index, READ_DATA_INDICES,
                  Spread(lst.options, [ after |-> lst.first[Len(lst.first)].cursor ])))

\* elPaginate called when the engine rejects the search.
ElPaginateRejectedReturned(user, options, err, r) ==
  /\ lst' = [ pc |-> "rejected", user |-> user, options |-> options, error |-> err,
              err |-> r.err, raised |-> r.raised, value |-> r.value, searches |-> r.searches ]
  /\ UNCHANGED << index, cache, useCache, io, del, rd, cdc, blk >>

ElPaginateRejected ==
  /\ lst.pc = "idle"
  /\ \E user \in ListUsers, connectionFormat \in BOOLEAN, err \in EngineErrors :
       ElPaginateRejectedReturned(user, [ connectionFormat |-> connectionFormat ], err,
         elPaginateRejected(user, [ connectionFormat |-> connectionFormat ], err))

NextList ==
  \/ ElListCall
  \/ ElListRequest
  \/ ElListRequestRejected
  \/ ElPaginateRejected
  \/ ElListCallback
  \/ ElListPush
  \/ ElListReturn
  \/ IndexWhileListing
  \/ ElPaginateFirst
  \/ ElPaginateSecond

SpecList == InitList /\ [][NextList]_vars

\* C7: in elList with a callback, once a callback invocation has returned false no
\* further page is requested from elPaginate, the callback is not invoked again and
\* the consumer receives no further item.
C7_NoPageAfterCallbackFalse ==
  [][ (lst.pc \in ListPcs /\ lst.stopped) =>
        /\ lst'.pc \in ListPcs
        /\ lst'.pages = lst.pages
        /\ lst'.callbacks = lst.callbacks
        /\ lst'.consumed = lst.consumed ]_vars

\* C7's case: the callback returned false on the second page while a further page
\* was still to be requested, and elList has returned.
C7_StoppedOnSecondPage ==
  /\ lst.pc = "returned"
  /\ lst.stopped
  /\ lst.callbacks = 2
  /\ lst.hasNextPage

\* The order of two documents on the sort key of a search body, ties apart.
KeyBefore(a, b, order) ==
  IF order.mode = "asc"
  THEN SortRank(order.field, SortValue(a, order.field))
         < SortRank(order.field, SortValue(b, order.field))
  ELSE SortRank(order.field, SortValue(a, order.field))
         > SortRank(order.field, SortValue(b, order.field))

PageIds(edges) == [ i \in DOMAIN edges |-> edges[i].node.internal_id ]

\* ids are the first elements of matching in the order, pageSizes their split.
ConsecutivePages(matching, p1, p2, k, order) ==
  /\ Len(p1) = Min(k, Cardinality(matching))
  /\ Len(p2) = Min(k, Cardinality(matching) - Len(p1))
  /\ Range(p1 \o p2) \subseteq matching
  /\ Cardinality(Range(p1 \o p2)) = Len(p1) + Len(p2)
  /\ \A i, j \in DOMAIN (p1 \o p2) :
       i < j => ~KeyBefore(index[(p1 \o p2)[j]], index[(p1 \o p2)[i]], order)
  /\ \A id \in matching \ Range(p1 \o p2) : \A j \in DOMAIN (p1 \o p2) :
       ~KeyBefore(index[id], index[(p1 \o p2)[j]], order)

\* C9: over an unchanged corpus, elPaginate with first = k, an orderBy field and an
\* orderMode returns the first k matching elements in that order, and the call with
\* after set to the cursor of the last returned element returns exactly the next k:
\* the two pages are disjoint and no matching element between them is skipped.
C9_SecondPageIsNextK ==
  lst.pc = "page2" =>
    ConsecutivePages(
      MatchingIds(index, READ_DATA_INDICES, elPaginateQuery(lst.user, lst.options)),
      PageIds(lst.first), PageIds(lst.second), lst.options.first,
      elPaginateQuery(lst.user, lst.options).sort[1])

\* ------------------------------------------------------------------------
\* Specification of the relation codec: a relationship is encoded for indexing
\* (prepareIndexing) and the document is decoded (elRebuildRelation)
\* ------------------------------------------------------------------------
CodecEndpoints ==
  { EntityDoc("e1", "Malware", Null, 20200115), EntityDoc("e2", "Report", Null, 20210320),
    NullElement }

CodecTypes == { RELATION_RELATED_TO, RELATION_INDICATES }

CodecRoles(type) ==
  { RoleOf(type, ROLE_FROM), RoleOf(type, ROLE_TO),
    RoleOf(IF type = RELATION_INDICATES THEN RELATION_RELATED_TO ELSE RELATION_INDICATES,
           ROLE_FROM),
    Null }

CodecThings ==
  { RelationElement("r1", type, from, to, roles[1], roles[2]) :
      type \in CodecTypes, from \in CodecEndpoints, to \in CodecEndpoints,
      roles \in UNION { CodecRoles(t) \X CodecRoles(t) : t \in CodecTypes } }

InitCodec ==
  /\ index = << >>
  /\ cache = << >>
  /\ useCache = FALSE
  /\ io = NoIo
  /\ del = NoDel
  /\ rd = NoRd
  /\ lst = NoLst
  /\ blk = NoBlk
  /\ \E thing \in CodecThings :
       cdc = [ pc |-> "input", thing |-> thing, err |-> "none", doc |-> NullElement,
               relation |-> NullElement ]

CodecEncode ==
  /\ cdc.pc = "input"
  /\ cdc' = IF prepareIndexingFails(<< cdc.thing >>)
            THEN [ cdc EXCEPT !.pc = "refused", !.err = "DatabaseError" ]
            ELSE [ cdc EXCEPT !.pc = "encoded", !.doc = prepareIndexing(<< cdc.thing >>)[1] ]
  /\ UNCHANGED << index, cache, useCache, io, del, rd, lst, blk >>

CodecDecode ==
  /\ cdc.pc = "encoded"
  /\ cdc' = IF elRebuildRelationFails(cdc.doc)
            THEN [ cdc EXCEPT !.pc = "decoded", !.err = "DatabaseError" ]
            ELSE [ cdc EXCEPT !.pc = "decoded", !.relation = elRebuildRelation(cdc.doc) ]
  /\ UNCHANGED << index, cache, useCache, io, del, rd, lst, blk >>

NextCodec ==
  \/ CodecEncode
  \/ CodecDecode

SpecCodec == InitCodec /\ [][NextCodec]_vars

\* Resolved endpoints and the two connections the decoder looks for.
WellFormed(thing) ==
  /\ thing.from # NullElement
  /\ thing.to # NullElement
  /\ thing.fromRole = RoleOf(thing.entity_type, ROLE_FROM)
  /\ thing.toRole = RoleOf(thing.entity_type, ROLE_TO)

SameEndpoints(thing, relation) ==
  /\ relation.fromId = thing.fromId
  /\ relation.toId = thing.toId
  /\ relation.fromId = thing.from.internal_id
  /\ relation.toId = thing.to.internal_id
  /\ relation.fromRole = thing.fromRole
  /\ relation.toRole = thing.toRole
  /\ relation.fromType = thing.from.entity_type
  /\ relation.toType = thing.to.entity_type
  /\ relation.relationship_type = thing.entity_type
  /\ relation.entity_type = thing.entity_type
  /\ "connections" \notin DOMAIN relation

\* C10: for a relationship with resolved from and to and two well-formed
\* connections, decoding the encoded document succeeds and gives back the same
\* fromId and toId, the same fromRole and toRole, fromType and toType equal to the
\* endpoints' entity types, relationship_type equal to entity_type, and no
\* connections array.
C10_DecodeOfEncode ==
  (cdc.pc \in { "refused", "encoded", "decoded" } /\ WellFormed(cdc.thing)) =>
    /\ cdc.pc # "refused"
    /\ cdc.err = "none"
    /\ cdc.pc = "decoded" => SameEndpoints(cdc.thing, cdc.relation)

\* C10's case: a well-formed relationship between two different entities has been
\* encoded and decoded.
C10_RoundTripDone ==
  /\ cdc.pc = "decoded"
  /\ WellFormed(cdc.thing)
  /\ cdc.thing.from # cdc.thing.to
  /\ cdc.relation # NullElement

\* An endpoint or a role of the relationship is missing.
MissingEndpointOrRole(thing) ==
  \/ thing.from = NullElement \/ thing.to = NullElement
  \/ thing.fromRole = Null \/ thing.toRole = Null

Encoded == cdc.pc \in { "refused", "encoded", "decoded" }

C12_OversizedPageRefusedWithDatabaseError ==
  (lst.pc = "page1" /\ lst.options.first > ES_MAX_PAGINATION) =>
    (lst.err = "DatabaseError" /\ lst.searches = 0 /\ lst.first = << >>)

\* C12 (as stated): the failure is an OutOfRange error.
C12_OversizedPageRefusedWithOutOfRangeError ==
  (lst.pc = "page1" /\ lst.options.first > ES_MAX_PAGINATION) =>
    (lst.err = "OutOfRangeError" /\ lst.searches = 0)

\* C12's case: a page of one element more than the maximum has been asked for and
\* refused, over a store that holds matching elements.
C12_OversizedPageAsked ==
  /\ lst.pc = "page1"
  /\ lst.options.first = ES_MAX_PAGINATION + 1
  /\ lst.err # "none"
  /\ DOMAIN index # {}

\* The fragments of the marking restriction of the user are in the query.
HasMarkingRestriction(query, restriction) ==
  /\ \A i \in DOMAIN restriction.must : restriction.must[i] \in Range(query.must)
  /\ \A i \in DOMAIN restriction.must_not : restriction.must_not[i] \in Range(query.must_not)

\* C13: every query a read operation (elCount, elAggregationCount,
\* elAggregationRelationsCount, elHistogramCount, elFindByFromAndTo, elFindByIds,
\* elPaginate, elAttributeValues) sends to the engine holds the must and the
\* must_not fragments buildMarkingRestriction gives for the calling user.
C13_EveryQueryRestricted ==
  rd.op # "none" =>
    /\ Len(rd.queries) = rd.searches
    /\ \A i \in DOMAIN rd.queries :
         HasMarkingRestriction(rd.queries[i], buildMarkingRestriction(rd.user))

\* C13's case: a user who holds a marking, and not all of them, has aggregated the
\* relationships of an entity, which sends two queries.
C13_RestrictedAggregation ==
  /\ rd.op = "elAggregationRelationsCount"
  /\ rd.user = UserM1
  /\ Len(rd.queries) = 2

\* The stored element has the type asked, or no type is asked.
HasType(id, type) ==
  type = NullId \/ type \in { index[id].entity_type } \cup Range(getParentTypes(index[id].entity_type))

\* C14: for a user holding the bypass capability, buildMarkingRestriction returns
\* empty must and must_not lists, and elFindByIds returns every stored element asked
\* for (of the type and in the indices asked), whatever markings it carries, whether
\* the cache or the search answers.
C14_BypassSeesEveryMarking ==
  (rd.op = "elFindByIds" /\ isBypassUser(rd.user)) =>
    /\ buildMarkingRestriction(rd.user) = [ must |-> << >>, must_not |-> << >> ]
    /\ rd.err = "none"
    /\ \A i \in DOMAIN rd.asked :
         (/\ rd.asked[i] \in DOMAIN index
          /\ index[rd.asked[i]].idx \in rd.indices
          /\ HasType(rd.asked[i], rd.type)) =>
           rd.asked[i] \in rd.ids

\* C14's case: the cache has answered a bypass user for a marked element, with no
\* search.
C14_MarkedElementFromCache ==
  /\ rd.op = "elFindByIds"
  /\ isBypassUser(rd.user)
  /\ rd.searches = 0
  /\ "e1" \in rd.ids
  /\ MarkingsOf("e1") # {}

\* The document is accepted by the marking restriction of the user.
Accepted(user, id) ==
  Matches(Bool(buildMarkingRestriction(user).must, buildMarkingRestriction(user).must_not,
               << >>, 0),
          index[id])

\* The markings the user knows and is not allowed to read.
ForbiddenMarkings(user) ==
  { m.internal_id : m \in user.all_marking } \ { m.internal_id : m \in user.allowed_marking }

\* C15: for a user without bypass, the filter of buildMarkingRestriction accepts an
\* element exactly when the element carries no marking, or the user holds at least
\* one marking and the element carries no marking of all_marking minus
\* allowed_marking, in any group of definition type; a user holding no marking is
\* shown only unmarked elements.
C15_FilterAcceptsExactly ==
  (rd.op # "none" /\ ~isBypassUser(rd.user)) =>
    /\ \A id \in DOMAIN index :
         Accepted(rd.user, id) <=>
           \/ MarkingsOf(id) = {}
           \/ /\ rd.user.allowed_marking # {}
              /\ MarkingsOf(id) \cap ForbiddenMarkings(rd.user) = {}
    /\ \A id \in rd.ids \cap DOMAIN index : Accepted(rd.user, id)
    /\ rd.user.allowed_marking = {} => \A id \in rd.ids \cap DOMAIN index : MarkingsOf(id) = {}

\* C15's case: a user holding m1 has paged over a store where one element carries m1
\* and a marking of another group the user does not hold: that element is left out,
\* the unmarked one is returned.
C15_OtherGroupRefused ==
  /\ rd.op = "elPaginate"
  /\ rd.user = UserM1
  /\ MarkingsOf("e1") = { "m1", "m3" }
  /\ "e1" \notin rd.ids
  /\ "e2" \in rd.ids

\* C16: after elDeleteElements completes successfully no stored relationship has a
\* connection to a deleted target or to a relationship deleted by the call, for
\* every deleting user. (Stated as the claim has it.)
C16_NoDanglingRelationship ==
  del.pc = "done" =>
    \A id \in RelationshipIdsStored :
      \A i \in DOMAIN index[id].connections :
        index[id].connections[i].internal_id \notin DeletedIds

\* ------------------------------------------------------------------------
\* Specification of elBulk on responses with failed items
\* ------------------------------------------------------------------------
\* Bound of the model on the number of operations of one bulk request.
MaxBulkOps == 3

BulkStore == [ id \in EntityIds |-> EntityDoc(id, "Malware", Null, 0) ]

\* The operations of the model: the indexing of a new element, the script update of
\* a stored element and of an element that is not stored, the deletion of a stored
\* element.
BulkOperations ==
  { IndexOps(<< EntityDoc("e3", "Malware", Null, 0) >>)[1],
    [ op |-> "update", idx |-> IndexOf(BASE_TYPE_ENTITY), id |-> "e1",
      script |-> removeIfScript(buildRefRelationKey(RELATION_RELATED_TO), "e2") ],
    [ op |-> "update", idx |-> IndexOf(BASE_TYPE_ENTITY), id |-> "e4",
      script |-> removeIfScript(buildRefRelationKey(RELATION_RELATED_TO), "e2") ],
    DeleteOps(<< BulkStore["e2"] >>)[1] }

BulkBodies ==
  UNION { { b \in [ 1..n -> BulkOperations ] : \A i, j \in 1..n : i # j => b[i] # b[j] } :
            n \in 1..MaxBulkOps }

InitBulk ==
  /\ index = BulkStore
  /\ cache = << >>
  /\ useCache = FALSE
  /\ io = NoIo
  /\ del = NoDel
  /\ rd = NoRd
  /\ lst = NoLst
  /\ cdc = NoCdc
  /\ blk = NoBlk

ElBulkReturned(body, r) ==
  /\ blk' = [ pc |-> "returned", body |-> body, items |-> r.items, err |-> r.err,
              message |-> r.message, errors |-> r.errors ]
  /\ index' = r.idx
  /\ UNCHANGED << cache, useCache, io, del, rd, lst, cdc >>

ElBulk ==
  \E body \in BulkBodies, refused \in SUBSET (1..MaxBulkOps) :
    /\ blk.pc = "idle"
    /\ ElBulkReturned(body, elBulkRefusing(index, body, refused))

NextBulk == ElBulk

SpecBulk == InitBulk /\ [][NextBulk]_vars

\* The errors of the failed items of a response.
FailedItems(items) ==
  [ i \in DOMAIN SelectSeq(items, LAMBDA it : it.error # NoError) |->
      SelectSeq(items, LAMBDA it : it.error # NoError)[i].error ]

\* C17: elBulk raises one DatabaseError whenever the response reports failed items,
\* and the error carries every failed item, whatever the kind of its action (index,
\* update or delete); it returns normally only when no item failed. (Stated as the
\* claim has it.)
C17_BulkErrorCarriesEveryFailure ==
  blk.pc = "returned" =>
    /\ FailedItems(blk.items) # << >> =>
         (blk.err = "DatabaseError" /\ blk.errors = FailedItems(blk.items))
    /\ blk.err = "none" => FailedItems(blk.items) = << >>

\* The engine error reports root causes and all of them are a missing index or a
\* missing mapping.
OnlyMissingIndexOrMapping(err) ==
  /\ err.root_cause # << >>
  /\ \A i \in DOMAIN err.root_cause :
       \/ includes("no such index", err.root_cause[i])
       \/ includes("No mapping found for", err.root_cause[i])

\* C18: when the engine rejects the search of elPaginate with an error whose root
\* causes are all a missing index or a missing mapping, elPaginate raises nothing and
\* returns an empty result (an empty page in connection format, an empty list
\* otherwise), and elList, rejected so on its first page, returns an empty listing.
C18_MissingIndexGivesEmptyResult ==
  /\ (lst.pc = "rejected" /\ OnlyMissingIndexOrMapping(lst.error)) =>
       /\ lst.err = "none"
       /\ lst.raised = NoRaise
       /\ lst.value = IF lst.options.connectionFormat
                      THEN [ edges |-> << >>, globalCount |-> 0 ] ELSE << >>
  /\ (/\ lst.pc \in { "loop", "returned" }
      /\ lst.rejected = 1
      /\ lst.pages = 1
      /\ OnlyMissingIndexOrMapping(lst.error)) =>
       /\ lst.err = "none"
       /\ lst.listing = << >>
       /\ ~lst.hasNextPage

\* C18's case: elList has returned after the engine rejected its first page request
\* for a missing index.
C18_ListOverMissingIndex ==
  /\ lst.pc = "returned"
  /\ lst.rejected = 1
  /\ lst.pages = 1
  /\ lst.error.root_cause = << << "no such index", "[opencti_stix_domain_objects]" >> >>
  /\ lst.listing = << >>

\* C19: a failure of elPaginate other than a missing index or mapping error of the
\* engine is raised to the caller unchanged and never becomes an empty result, engine
\* errors that report no root cause included. (Stated as the claim has it.)
C19_OtherFailuresRaisedUnchanged ==
  (lst.pc = "rejected" /\ ~OnlyMissingIndexOrMapping(lst.error)) =>
    /\ lst.err # "none"
    /\ lst.raised = lst.error

\* C20: elFindByIds returns the same set of elements, for the same user, ids, type
\* and indices, whether the cache answers (its entries being up to date) or always
\* misses. (Stated as the claim has it.)
C20_CacheAgreesWithSearch ==
  rd.op = "elFindByIds" =>
    rd.ids = ElementIds(elFindByIds(rd.user, index, FALSE, << >>, rd.asked, rd.indices,
                                    rd.type).hits)

\* ------------------------------------------------------------------------
\* Specification of elIndexElements on successive batches of relationships
\* ------------------------------------------------------------------------
\* A batch of relationships is written on the store left by the batches before it.
IndexBatch ==
  \E elements \in IndexBatches :
    /\ \A i \in DOMAIN elements : elements[i].internal_id \notin DOMAIN index
    /\ \A i \in DOMAIN elements : elements[i].fromId # elements[i].toId
    /\ ElIndexElements(elements)

NextIndex == IndexBatch

SpecIndex == InitDelete /\ [][NextIndex]_vars

\* The ids a document holds in a reference field; none when the document or the
\* field is absent.
FieldIds(idx, id, k) ==
  IF id \notin DOMAIN idx THEN {}
  ELSE IF idx[id].rel[k] = Null THEN {}
  ELSE Range(idx[id].rel[k])

\* The ids the relationships written by the step give to field k of document id:
\* the opposite endpoints of the relationships of k's type of which id is an
\* endpoint with an impacted role.
ImpactIds(before, after, id, k) ==
  { after[r].connections[3 - i].internal_id :
      << r, i >> \in { x \in (DOMAIN after \ DOMAIN before) \X { 1, 2 } :
                         /\ buildRefRelationKey(after[x[1]].entity_type) = k
                         /\ after[x[1]].connections[x[2]].internal_id = id
                         /\ after[x[1]].connections[x[2]].role
                              \notin UNIMPACTED_ENTITIES_ROLE } }

\* The reference fields of the types of the relationships written by the step.
WrittenKeys(before, after) ==
  { buildRefRelationKey(after[r].entity_type) : r \in DOMAIN after \ DOMAIN before }

\* C21: after elIndexElements completes successfully, every endpoint of a written
\* relationship whose role is impacted holds the id of the opposite endpoint in its
\* reference field of the relationship type, every id held before the call is still
\* held, and no id is added to a field for an endpoint whose role is unimpacted.
C21_ImpactedEndpointsReferenced ==
  [][ (io'.op = "elIndexElements" /\ io'.err = "none") =>
        /\ \A id \in DOMAIN index', k \in RefKeys :
             /\ ImpactIds(index, index', id, k) \subseteq FieldIds(index', id, k)
             /\ FieldIds(index, id, k) \subseteq FieldIds(index', id, k)
        /\ \A id \in DOMAIN index', k \in WrittenKeys(index, index') :
             FieldIds(index', id, k) \ FieldIds(index, id, k)
               \subseteq ImpactIds(index, index', id, k) ]_vars

\* C21's case: a second batch has written an indicates relationship from e1, which
\* already held a reference of that type: e1 holds both ids, and the to endpoint,
\* whose role is unimpacted, holds none.
C21_SecondIndicatesWritten ==
  /\ io.op = "elIndexElements"
  /\ io.err = "none"
  /\ { "r1", "r2" } \subseteq DOMAIN index
  /\ index["r1"].entity_type = RELATION_INDICATES
  /\ index["r2"].entity_type = RELATION_INDICATES
  /\ FieldIds(index, "e1", buildRefRelationKey(RELATION_INDICATES)) = { "e2", "r1" }
  /\ FieldIds(index, "e2", buildRefRelationKey(RELATION_INDICATES)) = {}

\* ------------------------------------------------------------------------
\* Specification of filtered pagination (elPaginate with filters)
\* ------------------------------------------------------------------------
\* The filtered field: the denormalized references of the related-to relationships.
FilterKey == buildRefRelationKey(RELATION_RELATED_TO)

FilterRefs == { Null, << "e3" >>, << "e1", "e3" >> }

FilterStore(refs) ==
  [ id \in ListIds |-> [ ListDoc(id, 20200115, Null) EXCEPT !.rel[FilterKey] = refs[id] ] ]

InitFilter ==
  /\ \E refs \in [ ListIds -> FilterRefs ] : index = FilterStore(refs)
  /\ cache = << >>
  /\ useCache = FALSE
  /\ io = NoIo
  /\ del = NoDel
  /\ rd = NoRd
  /\ lst = NoLst
  /\ cdc = NoCdc
  /\ blk = NoBlk

\* The top-level filters given: on the references (null, EXISTS, a value, and
\* mixed values) and on the type.
TopFilters ==
  { [ key |-> FilterKey, values |-> << NullId >> ],
    [ key |-> FilterKey, values |-> << "EXISTS" >> ],
    [ key |-> FilterKey, values |-> << "e1" >> ],
    [ key |-> FilterKey, values |-> << NullId, "e3" >> ],
    [ key |-> FilterKey, values |-> << "EXISTS", "e1" >> ],
    [ key |-> FilterKey, values |-> << "EXISTS", "e1" >>, filterMode |-> "and" ],
    [ key |-> "entity_type", values |-> << "Report" >> ] }

FilterLists ==
  { << f >> : f \in TopFilters } \cup { << f, g >> : f \in TopFilters, g \in TopFilters }

FilterOptions ==
  { [ connectionFormat |-> FALSE, filters |-> fs ] : fs \in FilterLists }
    \cup { [ connectionFormat |-> FALSE, filters |-> fs, filterMode |-> m ] :
             fs \in FilterLists, m \in { "and", "or" } }

ElPaginateFilteredReturned(user, options, r) ==
  /\ rd' = Spread(ReadRecord("elPaginate", user, NullId, r, ElementIds(r.value)),
                  [ options |-> options ])
  /\ UNCHANGED << index, cache, useCache, io, del, lst, cdc, blk >>

ReadFiltered ==
  /\ rd = NoRd
  /\ \E user \in ListUsers, options \in FilterOptions :
       ElPaginateFilteredReturned(user, options,
                                  elPaginate(user, index, READ_DATA_INDICES, options))

NextFilter == ReadFiltered

SpecFilter == InitFilter /\ [][NextFilter]_vars

\* The field of a filter exists in a document.
HasField(id, key) ==
  IF key = "entity_type" THEN TRUE ELSE index[id].rel[key] # Null

HoldsValue(id, key, value) ==
  IF key = "entity_type" THEN index[id].entity_type = value
  ELSE index[id].rel[key] # Null /\ value \in Range(index[id].rel[key])

Filtered == rd.op = "elPaginate" /\ "options" \in DOMAIN rd /\ rd.err = "none"

OnlyFilter == rd.options.filters[1]

\* C22: a null among the values of a filter makes every selected document lack the
\* field of the filter; the value EXISTS makes every selected document hold the
\* field, and alone (or among values of which one suffices) it selects every
\* accessible document holding the field whatever its value; a filter whose values
\* are only null selects exactly the accessible documents without the field.
C22_NullAndExistsEntries ==
  Filtered =>
    /\ \A i \in DOMAIN rd.options.filters :
         NullId \in Range(rd.options.filters[i].values) =>
           \A id \in rd.ids : ~HasField(id, rd.options.filters[i].key)
    /\ Len(rd.options.filters) = 1 =>
         /\ Range(OnlyFilter.values) = { NullId } =>
              rd.ids = { id \in DOMAIN index :
                           Accepted(rd.user, id) /\ ~HasField(id, OnlyFilter.key) }
         /\ ("EXISTS" \in Range(OnlyFilter.values) /\ NullId \notin Range(OnlyFilter.values)) =>
              /\ \A id \in rd.ids : HasField(id, OnlyFilter.key)
              /\ (Len(OnlyFilter.values) = 1 \/ Opt(OnlyFilter, "filterMode", "or") = "or") =>
                   rd.ids = { id \in DOMAIN index :
                                Accepted(rd.user, id) /\ HasField(id, OnlyFilter.key) }

\* A null-only filter has returned a document without the field and left out one
\* holding it.
C22_NullFilterSelected ==
  /\ Filtered
  /\ rd.options.filters = << [ key |-> FilterKey, values |-> << NullId >> ] >>
  /\ rd.ids # {}
  /\ \E id \in DOMAIN index : HasField(id, FilterKey)

\* A document satisfies a top-level filter: it lacks the field when the values hold
\* a null, and it holds one of the other values (each of them when the filter's own
\* mode is 'and'), EXISTS standing for any value.
HoldsEntry(id, key, value) ==
  IF value = "EXISTS" THEN HasField(id, key) ELSE HoldsValue(id, key, value)

Satisfies(id, f) ==
  /\ NullId \in Range(f.values) => ~HasField(id, f.key)
  /\ \/ Range(f.values) \subseteq { NullId }
     \/ /\ Opt(f, "filterMode", "or") = "or"
        /\ \E v \in Range(f.values) \ { NullId } : HoldsEntry(id, f.key, v)
     \/ /\ Opt(f, "filterMode", "or") = "and"
        /\ \A v \in Range(f.values) \ { NullId } : HoldsEntry(id, f.key, v)

\* C23: with the global filterMode 'and' every selected document satisfies every
\* top-level filter; with the global filterMode 'or' the selected documents are
\* exactly the accessible documents satisfying at least one top-level filter, null
\* filters included.
C23_GlobalFilterMode ==
  Filtered =>
    /\ Opt(rd.options, "filterMode", "and") = "and" =>
         \A id \in rd.ids : \A i \in DOMAIN rd.options.filters :
           Satisfies(id, rd.options.filters[i])
    /\ Opt(rd.options, "filterMode", "and") = "or" =>
         rd.ids = { id \in DOMAIN index :
                      /\ Accepted(rd.user, id)
                      /\ \E i \in DOMAIN rd.options.filters :
                           Satisfies(id, rd.options.filters[i]) }

\* The part of C23 on the global filterMode 'and', and on the global filterMode 'or'
\* when no filter holds a null: the selection of 'and' is exactly the accessible
\* documents satisfying every filter.
C23_WithoutNullUnderOr ==
  Filtered =>
    /\ Opt(rd.options, "filterMode", "and") = "and" =>
         rd.ids = { id \in DOMAIN index :
                      /\ Accepted(rd.user, id)
                      /\ \A i \in DOMAIN rd.options.filters :
                           Satisfies(id, rd.options.filters[i]) }
    /\ ( /\ Opt(rd.options, "filterMode", "and") = "or"
         /\ \A i \in DOMAIN rd.options.filters :
              NullId \notin Range(rd.options.filters[i].values) ) =>
         rd.ids = { id \in DOMAIN index :
                      /\ Accepted(rd.user, id)
                      /\ \E i \in DOMAIN rd.options.filters :
                           Satisfies(id, rd.options.filters[i]) }

\* Under the global filterMode 'or', a Report holding the field is left out by the
\* filters (field is null) or (type is Report).
C23_ReportWithFieldLeftOut ==
  /\ Filtered
  /\ Opt(rd.options, "filterMode", "and") = "or"
  /\ rd.options.filters = << [ key |-> FilterKey, values |-> << NullId >> ],
                             [ key |-> "entity_type", values |-> << "Report" >> ] >>
  /\ HasField("e3", FilterKey)
  /\ Accepted(rd.user, "e3")
  /\ "e3" \notin rd.ids

\* ------------------------------------------------------------------------
\* Specification of the requests in flight during one elDeleteElements call.
\* The relationships are counted: a discovery search returns a number of
\* relationships, split in groups of MAX_SPLIT.
\* ------------------------------------------------------------------------
\* Bound of the model on the depth of the relationship graph.
MaxDepth == 2

\* Len(R.splitEvery(MAX_SPLIT, list)) for a list of n items.
GroupsOf(n) == (n + MAX_SPLIT - 1) \div MAX_SPLIT

\* The numbers of relationships one discovery search finds.
FoundCounts == { 0, MAX_SPLIT + 1 }

\* Promise.map(items, fn, { concurrency: ES_MAX_CONCURRENCY }) over n items: the
\* items not yet started and the items running.
StartPool(n) ==
  [ queued |-> n - Min(n, ES_MAX_CONCURRENCY), running |-> Min(n, ES_MAX_CONCURRENCY) ]

\* One running item has settled: the next queued item starts in its place.
PoolNext(pool) ==
  IF pool.queued > 0 THEN [ pool EXCEPT !.queued = @ - 1 ]
  ELSE [ pool EXCEPT !.running = @ - 1 ]

\* One running item has failed: the mapping rejects and starts nothing more.
PoolFailed(pool) == [ pool EXCEPT !.running = @ - 1 ]

\* A mapping taken as settled as soon as every item has started.
PoolDoneWhenStarted(pool) == pool.queued = 0

\* await Promise.map(...): the mapping settles when every item has settled.
PoolDone(pool) == pool.queued = 0 /\ pool.running = 0

\* One getRelatedRelations call: searching (its elList is in flight), or waiting
\* for the mapping of its recursive calls; started counts the calls it has started.
NewCall == [ st |-> "search", queued |-> 0, running |-> 0, started |-> 0 ]

ParentOf(p) == SubSeq(p, 1, Len(p) - 1)

Restrict(f, S) == [ x \in S |-> f[x] ]

\* The calls after call p has scheduled its recursive calls on g groups.
CallsAfterFound(calls, p, g) ==
  [ q \in DOMAIN calls \cup { p \o << k >> : k \in 1..Min(g, ES_MAX_CONCURRENCY) } |->
      IF q = p THEN [ st |-> "map", queued |-> StartPool(g).queued,
                      running |-> StartPool(g).running, started |-> StartPool(g).running ]
      ELSE IF q \in DOMAIN calls THEN calls[q] ELSE NewCall ]

\* The calls after call p has returned: the mapping of its caller starts the next
\* queued call, if any.
CallsAfterReturn(calls, p) ==
  IF p = << >> THEN Restrict(calls, {})
  ELSE IF ParentOf(p) \notin DOMAIN calls THEN Restrict(calls, DOMAIN calls \ { p })
  ELSE IF calls[ParentOf(p)].queued > 0
  THEN [ q \in (DOMAIN calls \ { p }) \cup { ParentOf(p) \o << calls[ParentOf(p)].started + 1 >> } |->
           IF q = ParentOf(p) THEN [ calls[q] EXCEPT !.queued = @ - 1, !.started = @ + 1 ]
           ELSE IF q \in DOMAIN calls THEN calls[q] ELSE NewCall ]
  ELSE [ q \in DOMAIN calls \ { p } |->
           IF q = ParentOf(p) THEN [ calls[q] EXCEPT !.running = @ - 1 ] ELSE calls[q] ]

NoPool == [ queued |-> 0, running |-> 0 ]

FlightIdle ==
  [ pc |-> "idle", calls |-> << >>, total |-> 0, loads |-> NoPool, loaded |-> 0,
    cleanup |-> NoPool, finds |-> 0, bulks |-> 0, deletions |-> NoPool, targets |-> 0,
    issued |-> [ cleanup |-> 0, deletions |-> 0, targets |-> 0 ] ]

InitFlight ==
  /\ index = << >>
  /\ cache = << >>
  /\ useCache = FALSE
  /\ io = NoIo
  /\ del = FlightIdle
  /\ rd = NoRd
  /\ lst = NoLst
  /\ cdc = NoCdc
  /\ blk = NoBlk

FlightUnchanged == UNCHANGED << index, cache, useCache, io, rd, lst, cdc, blk >>

\* elDeleteElements is called with elements: the discovery starts on their ids.
FlightCall ==
  /\ del.pc = "idle"
  /\ del' = [ del EXCEPT !.pc = "discover", !.calls = (<< >> :> NewCall) ]
  /\ FlightUnchanged

\* The elList of one getRelatedRelations call returns n relationships.
FlightSearchReturned(p, n) ==
  /\ del' = [ del EXCEPT !.total = @ + n,
                         !.calls = IF GroupsOf(n) = 0 THEN CallsAfterReturn(del.calls, p)
                                   ELSE CallsAfterFound(del.calls, p, GroupsOf(n)) ]
  /\ FlightUnchanged

FlightSearchReturns ==
  /\ del.pc = "discover"
  /\ \E p \in DOMAIN del.calls :
       /\ del.calls[p].st = "search"
       /\ \E n \in (IF Len(p) < MaxDepth THEN FoundCounts ELSE { 0 }) :
            FlightSearchReturned(p, n)

\* The mapping of the recursive calls of one call has settled: the call returns.
FlightMapSettles ==
  /\ del.pc = "discover"
  /\ \E p \in DOMAIN del.calls :
       /\ del.calls[p].st = "map"
       /\ PoolDone([ queued |-> del.calls[p].queued, running |-> del.calls[p].running ])
       /\ del' = [ del EXCEPT !.calls = CallsAfterReturn(del.calls, p) ]
  /\ FlightUnchanged

\* The discovery has returned: the non-meta typed relationships are loaded.
FlightStartLoads ==
  /\ del.pc = "discover"
  /\ DOMAIN del.calls = {}
  /\ \E stix \in { 0, 1, 3 } :
       /\ stix <= del.total
       /\ del' = [ del EXCEPT !.pc = "load", !.loads = StartPool(stix) ]
  /\ FlightUnchanged

FlightLoadReturns ==
  /\ del.pc = "load"
  /\ del.loads.running > 0
  /\ del' = [ del EXCEPT !.loads = PoolNext(del.loads), !.loaded = @ + 1 ]
  /\ FlightUnchanged

\* The loads have settled: the groups of cleanups start, each with its elFindByIds.
FlightStartCleanups ==
  /\ del.pc = "load"
  /\ PoolDone(del.loads)
  /\ \E impacts \in { 0, 1, del.total } :
       del' = [ del EXCEPT !.pc = "cleanup", !.cleanup = StartPool(GroupsOf(impacts)),
                           !.finds = StartPool(GroupsOf(impacts)).running ]
  /\ FlightUnchanged

\* elRemoveRelationConnection: the elFindByIds returns and the bulk is sent.
FlightCleanupFound ==
  /\ del.finds > 0
  /\ del' = [ del EXCEPT !.finds = @ - 1, !.bulks = @ + 1, !.issued.cleanup = @ + 1 ]
  /\ FlightUnchanged

\* The bulk of one group of cleanups returns, or fails.
FlightCleanupReturns ==
  /\ del.bulks > 0
  /\ \/ /\ del.pc = "cleanup"
        /\ del' = [ del EXCEPT !.bulks = @ - 1, !.cleanup = PoolNext(del.cleanup),
                               !.finds = IF del.cleanup.queued > 0 THEN @ + 1 ELSE @ ]
     \/ del' = [ del EXCEPT !.bulks = @ - 1, !.cleanup = PoolFailed(del.cleanup),
                            !.pc = "failed" ]
  /\ FlightUnchanged

\* The cleanups have settled: the groups of relationship deletions start.
FlightStartDeletions ==
  /\ del.pc = "cleanup"
  /\ PoolDone(del.cleanup)
  /\ del' = [ del EXCEPT !.pc = "delete_rels", !.deletions = StartPool(GroupsOf(del.total)),
                         !.issued.deletions = StartPool(GroupsOf(del.total)).running ]
  /\ FlightUnchanged

\* The bulk of one group of deletions returns, or fails.
FlightDeletionReturns ==
  /\ del.deletions.running > 0
  /\ \/ /\ del.pc = "delete_rels"
        /\ del' = [ del EXCEPT !.deletions = PoolNext(del.deletions),
                               !.issued.deletions =
                                  IF del.deletions.queued > 0 THEN @ + 1 ELSE @ ]
     \/ del' = [ del EXCEPT !.deletions = PoolFailed(del.deletions), !.pc = "failed" ]
  /\ FlightUnchanged

\* The deletions have settled: the bulk deleting the target elements is sent.
FlightStartTargets ==
  /\ del.pc = "delete_rels"
  /\ PoolDone(del.deletions)
  /\ del' = [ del EXCEPT !.pc = "delete_targets", !.targets = 1, !.issued.targets = 1 ]
  /\ FlightUnchanged

FlightTargetsReturn ==
  /\ del.targets > 0
  /\ del' = [ del EXCEPT !.targets = 0,
                         !.pc = IF del.pc = "delete_targets" THEN "done" ELSE @ ]
  /\ FlightUnchanged

NextFlight ==
  \/ FlightCall
  \/ FlightSearchReturns
  \/ FlightMapSettles
  \/ FlightStartLoads
  \/ FlightLoadReturns
  \/ FlightStartCleanups
  \/ FlightCleanupFound
  \/ FlightCleanupReturns
  \/ FlightStartDeletions
  \/ FlightDeletionReturns
  \/ FlightStartTargets
  \/ FlightTargetsReturn

SpecFlight == InitFlight /\ [][NextFlight]_vars

\* The engine requests in flight: discovery searches, the reads and bulks of the
\* cleanups, the deletion bulks and the bulk of the targets.
Searching == { p \in DOMAIN del.calls : del.calls[p].st = "search" }

InFlight ==
  Cardinality(Searching) + del.finds + del.bulks + del.deletions.running + del.targets

CleanupsInProgress == del.cleanup.queued + del.cleanup.running

DeletionsInProgress == del.deletions.queued + del.deletions.running

\* C24: when a relationship-deletion bulk has been issued every cleanup bulk has
\* completed (none is queued or in flight), and when the bulk deleting the target
\* elements has been issued every relationship-deletion bulk has completed.
C24_PhasesStrictlyOrdered ==
  /\ del.issued.deletions > 0 =>
       /\ CleanupsInProgress = 0
       /\ del.finds = 0 /\ del.bulks = 0
  /\ del.issued.targets > 0 =>
       /\ CleanupsInProgress = 0 /\ del.finds = 0 /\ del.bulks = 0
       /\ DeletionsInProgress = 0

\* The three phases have run, each with more groups than the concurrency.
C24_ThreePhasesRun ==
  /\ del.pc = "done"
  /\ del.issued.cleanup > ES_MAX_CONCURRENCY
  /\ del.issued.deletions > ES_MAX_CONCURRENCY
  /\ del.issued.targets = 1

\* C28: at every moment of the call at most ES_MAX_CONCURRENCY engine requests are
\* in flight.
C28_InFlightWithinConcurrency == InFlight <= ES_MAX_CONCURRENCY

\* After the discovery, at most ES_MAX_CONCURRENCY requests are in flight while the
\* call runs.
C28_PhasesWithinConcurrency ==
  del.pc \in { "load", "cleanup", "delete_rels", "delete_targets", "done" } =>
    InFlight <= ES_MAX_CONCURRENCY

\* Two calls of the first level of recursion each run their own mapping.
C28_NestedMappings ==
  /\ del.pc = "discover"
  /\ Cardinality({ p \in Searching : Len(p) = 2 }) > ES_MAX_CONCURRENCY

\* The relationships of the removal list that are not meta relationships.
NonMetaDiscovered ==
  SelectSeq(del.relationsToRemove,
            LAMBDA r : "stix-meta-relationship" \notin Range(getParentTypes(r.relationship_type)))

\* C25: no cleanup or deletion bulk of the call is issued before the discovered
\* non-meta typed relationships are loaded, each through the loader, and the value
\* the call returns is the list of these loaded relationships.
C25_LoadedBeforeWritesAndReturned ==
  /\ del.pc \in { "discover", "load" } => io.bulks = 0
  /\ del.pc \in { "cleanup", "delete_rels", "delete_targets", "done" } =>
       /\ io.loads = Len(NonMetaDiscovered)
       /\ del.dependencyDeletions =
            [ i \in DOMAIN NonMetaDiscovered |-> NonMetaDiscovered[i].internal_id ]

\* A call has returned the one typed relationship it found next to a meta
\* relationship, after its bulks.
C25_TypedLoadedMetaNot ==
  /\ del.pc = "done"
  /\ io.bulks > 0
  /\ Len(del.relationsToRemove) > Len(del.dependencyDeletions)
  /\ Len(del.dependencyDeletions) > 0

\* The cleanups queued: the pairs <<relationship id, side>> of the groups.
QueuedCleanups(groups) ==
  UNION { { << groups[g][j].relation.internal_id, ROLE_FROM >> :
              j \in { j \in DOMAIN groups[g] : groups[g][j].isFromCleanup } }
          \cup { << groups[g][j].relation.internal_id, ROLE_TO >> :
                   j \in { j \in DOMAIN groups[g] : groups[g][j].isToCleanup } } :
          g \in DOMAIN groups }

\* The relationships the call removes: the discovered ones and the targets that
\* are relationships.
RemovedRelationships ==
  Range(del.relationsToRemove)
  \cup { del.elements[i] : i \in { i \in DOMAIN del.elements :
                                    isBasicRelationship(del.elements[i].entity_type) } }

EndpointOf(r, side) == IF side = ROLE_FROM THEN r.fromId ELSE r.toId

DiscoveredIds == { del.relationsToRemove[i].internal_id : i \in DOMAIN del.relationsToRemove }

TargetIds == { del.elements[i].internal_id : i \in DOMAIN del.elements }

\* The sides of the removed relationships whose role is impactful and whose
\* endpoint is not among the removed ids.
ImpactfulSides(removed) ==
  { p \in (DOMAIN index \cup RelIds) \X { ROLE_FROM, ROLE_TO } :
      \E r \in RemovedRelationships :
        /\ r.internal_id = p[1]
        /\ RoleOf(r.entity_type, p[2]) \notin UNIMPACTED_ENTITIES_ROLE
        /\ EndpointOf(r, p[2]) \notin removed }

\* C26: the cleanups elDeleteElements queues are exactly the sides of the removed
\* relationships whose role is impactful and whose endpoint survives the deletion:
\* the endpoint is neither a discovered relationship nor a target of the batch.
C26_CleanupIffImpactedAndSurviving ==
  [][ del.pc = "load" =>
        QueuedCleanups(del'.groupsOfRelsFromTo) = ImpactfulSides(DiscoveredIds \cup TargetIds)
    ]_vars

\* What the code keeps: the test of survival looks at the discovered relationships
\* only, so the sides whose endpoint is a target of the batch are queued as well.
C26_CleanupIffImpactedAndNotDiscovered ==
  [][ del.pc = "load" =>
        QueuedCleanups(del'.groupsOfRelsFromTo) = ImpactfulSides(DiscoveredIds) ]_vars

\* ------------------------------------------------------------------------
\* Specification of the writers and the cache: the index write and the cache
\* invalidation of one writer are two requests in flight together
\* ------------------------------------------------------------------------
\* Bound of the model on the number of writes of a behaviour.
MaxWrites == 2

isStixObject(type) == "Stix-Object" \in Range(getParentTypes(type))

\* elReplace: every field of the given document is assigned (or removed when
\* empty, the absent value of the model) by one scripted update of the document.
elReplace(idx, documentId, doc) ==
  IF documentId \notin DOMAIN idx THEN idx
  ELSE [ idx EXCEPT ![documentId] =
           [ k \in DOMAIN @ |-> IF k \in DOMAIN doc \ { "idx" } THEN doc[k] ELSE @[k] ] ]

\* elUpdateConnectionsOfElement: in every relationship with a connection on the
\* element, the first such connection receives the changes (the name).
ConnectionsRenamed(connections, documentId, name) ==
  LET found == { c \in DOMAIN connections : connections[c].internal_id = documentId }
      first == CHOOSE c \in found : \A d \in found : c <= d
  IN [ c \in DOMAIN connections |->
         IF c = first THEN [ connections[c] EXCEPT !.name = name ] ELSE connections[c] ]

elUpdateConnectionsOfElement(idx, documentId, name) ==
  [ id \in DOMAIN idx |->
      IF /\ idx[id].idx \in READ_RELATIONSHIPS_INDICES
         /\ \E c \in DOMAIN idx[id].connections : idx[id].connections[c].internal_id = documentId
      THEN [ idx[id] EXCEPT !.connections = ConnectionsRenamed(@, documentId, name) ]
      ELSE idx[id] ]

\* The requests a writer has in flight: the cache invalidation of the ids dels and
\* the index writes, which land in any order.
WriterIssued(op, dels, ops, instance, pending) ==
  [ pc |-> "issued", op |-> op, dels |-> dels, ops |-> ops, instance |-> instance,
    pending |-> pending ]

InitWriters ==
  /\ \E m1 \in { Null, << "m1" >> } :
       index = [ id \in EntityIds |->
                   EntityDoc(id, "Malware", IF id = "e1" THEN m1 ELSE Null, 0) ]
  /\ cache = << >>
  /\ useCache = TRUE
  /\ io = NoIo
  /\ del = NoDel
  /\ rd = NoRd
  /\ lst = NoLst
  /\ cdc = NoCdc
  /\ blk = NoBlk

WriterCounted == io' = [ io EXCEPT !.calls = @ + 1 ]

\* A reader resolves ids through the cache while no write is in progress.
WriterReadReturned(r) ==
  /\ cache' = r.cache
  /\ UNCHANGED << index, useCache, io, del, rd, lst, cdc, blk >>

WriterRead ==
  /\ blk.pc = "idle"
  /\ \E ids \in { << "e1" >>, << "e2", "e1" >>, << "r1" >> } :
       WriterReadReturned(elFindByIds(AdminUser, index, useCache, cache, ids,
                                      READ_DATA_INDICES, NullId))

\* elDeleteInstanceIds(instances): cacheDel and elBulk are started together.
IssueDeleteInstanceIds ==
  /\ blk.pc = "idle"
  /\ io.calls < MaxWrites
  /\ \E id \in DOMAIN index :
       blk' = WriterIssued("elDeleteInstanceIds", { id },
                           DeleteOps(<< LoadedElement(index, id) >>), NullElement,
                           { "cache", "bulk" })
  /\ WriterCounted
  /\ UNCHANGED << index, cache, useCache, del, rd, lst, cdc >>

\* elRemoveRelationConnection(user, relsFromTo): the endpoints are resolved, then
\* cacheDel and elBulk are started together.
RemoveRelationConnectionIssued(relsFromTo, found) ==
  /\ found.err = "none"
  /\ cache' = found.cache
  /\ blk' = WriterIssued("elRemoveRelationConnection",
                         { found.hits[i].internal_id : i \in DOMAIN found.hits },
                         bodyUpdateOf(relsFromTo, indexCacheOf(found.hits)), NullElement,
                         { "cache", "bulk" })

IssueRemoveRelationConnection ==
  /\ blk.pc = "idle"
  /\ io.calls < MaxWrites
  /\ \E id \in RelationshipIdsStored :
       LET relsFromTo == relsFromToImpacts(<< LoadedElement(index, id) >>, << >>, {})
       IN /\ Len(relsFromTo) > 0
          /\ RemoveRelationConnectionIssued(relsFromTo,
               elFindByIds(AdminUser, index, useCache, cache, idsToResolve(relsFromTo),
                           READ_DATA_INDICES, NullId))
  /\ WriterCounted
  /\ UNCHANGED << index, useCache, del, rd, lst, cdc >>

\* elIndexElements(elements): the documents are written and awaited, then the
\* bulk of the impacts and cacheDel are started together.
IndexElementsIssued(indexed, bodyUpdate) ==
  /\ indexed.err = "none"
  /\ index' = indexed.idx
  /\ blk' = IF bodyUpdate = << >> THEN NoBlk
            ELSE WriterIssued("elIndexElements", { bodyUpdate[i].id : i \in DOMAIN bodyUpdate },
                              bodyUpdate, NullElement, { "cache", "bulk" })

IssueIndexElements ==
  /\ blk.pc = "idle"
  /\ io.calls < MaxWrites
  /\ "r1" \notin DOMAIN index
  /\ \E elements \in { << MetaRelation >> } \cup { << a >> : a \in OneRelation("r1", {}) } :
       /\ \A i \in DOMAIN elements :
            { elements[i].fromId, elements[i].toId } \subseteq DOMAIN index
       /\ ~prepareIndexingFails(elements)
       /\ IndexElementsIssued(elBulk(index, IndexOps(prepareIndexing(elements))),
                              ImpactUpdateOps(elements))
  /\ WriterCounted
  /\ UNCHANGED << cache, useCache, del, rd, lst, cdc >>

\* elUpdateElement(instance): cacheDel, elReplace and, for a named stix object,
\* elUpdateConnectionsOfElement are started together.
UpdateElementIssued(instance, esData) ==
  blk' = WriterIssued("elUpdateElement", { esData.internal_id }, << >>, esData,
                      { "cache", "replace" }
                      \cup (IF esData.name # NullId /\ isStixObject(instance.entity_type)
                            THEN { "connections" } ELSE {}))

IssueUpdateElement ==
  /\ blk.pc = "idle"
  /\ io.calls < MaxWrites
  /\ \E id \in DOMAIN index :
       UpdateElementIssued([ index[id] EXCEPT !.name = "renamed" ],
                           prepareElementForIndexing([ index[id] EXCEPT !.name = "renamed" ]))
  /\ WriterCounted
  /\ UNCHANGED << index, cache, useCache, del, rd, lst, cdc >>

\* One request in flight takes effect.
WriterLanded(request) ==
  /\ blk' = [ blk EXCEPT !.pending = @ \ { request } ]
  /\ cache' = IF request = "cache" THEN cacheDel(cache, blk.dels) ELSE cache
  /\ index' = CASE request = "bulk" -> elBulk(index, blk.ops).idx
                [] request = "replace" -> elReplace(index, blk.instance.internal_id, blk.instance)
                [] request = "connections" ->
                     elUpdateConnectionsOfElement(index, blk.instance.internal_id,
                                                  blk.instance.name)
                [] OTHER -> index
  /\ UNCHANGED << useCache, io, del, rd, lst, cdc >>

WriterLands ==
  /\ blk.pc = "issued"
  /\ \E request \in blk.pending : WriterLanded(request)

\* await Promise.all([...]): the writer returns when every request has landed.
WriterReturns ==
  /\ blk.pc = "issued"
  /\ blk.pending = {}
  /\ blk' = NoBlk
  /\ UNCHANGED << index, cache, useCache, io, del, rd, lst, cdc >>

NextWriters ==
  \/ WriterRead
  \/ IssueDeleteInstanceIds
  \/ IssueRemoveRelationConnection
  \/ IssueIndexElements
  \/ IssueUpdateElement
  \/ WriterLands
  \/ WriterReturns

SpecWriters == InitWriters /\ [][NextWriters]_vars

\* The cache entry of id is what a read of the index returns for id.
Fresh(id) ==
  /\ id \in DOMAIN index
  /\ dissoc("sort", cache[id]) = dissoc("sort", LoadedElement(index, id))

\* C27: the cache never holds the old entry of a document while the index shows
\* its new state: every entry of the cache is what the index holds.
C27_NoOldEntryWithNewIndex == \A id \in DOMAIN cache : Fresh(id)

\* What the code keeps: an entry differs from the index only while the
\* invalidation of its id by the writer in progress has not landed.
C27_OldEntryOnlyWhileInvalidationInFlight ==
  \A id \in DOMAIN cache :
    Fresh(id) \/ (blk.pc = "issued" /\ "cache" \in blk.pending /\ id \in blk.dels)

\* The bulk of elDeleteInstanceIds has landed before its cacheDel.
C27_DeletedStillCached ==
  /\ blk.pc = "issued"
  /\ blk.op = "elDeleteInstanceIds"
  /\ blk.pending = { "cache" }
  /\ \E id \in blk.dels : id \in DOMAIN cache /\ id \notin DOMAIN index

\* The page a successful page request of elList has read, and whether the loop
\* ends on it.
PageRead == IF lst'.pc = "publish" THEN lst'.elements ELSE << >>

StopsOnPage == IF lst'.pc = "publish" THEN lst'.last ELSE ~lst'.hasNextPage

PageRequestAnswered ==
  /\ lst.pc = "loop"
  /\ lst'.pc \in { "loop", "publish" }
  /\ lst'.pages = lst.pages + 1
  /\ lst'.rejected = lst.rejected

\* C29: elList ends its iteration on a page exactly when the page holds fewer
\* elements than the size elList requested (MAX_SEARCH_SIZE); after a full page it
\* goes on with the cursor of the sort key of the last element of the page.
C29_StopsExactlyOnShortPage ==
  [][ PageRequestAnswered =>
        /\ StopsOnPage <=> Len(PageRead) < MAX_SEARCH_SIZE
        /\ ~StopsOnPage =>
             lst'.searchAfter = offsetToCursor(PageRead[Len(PageRead)].sort) ]_vars

\* What the code keeps: the iteration ends on an empty page, or on a page shorter
\* than the first option of the caller when the caller gave one; otherwise the
\* next page is requested after the last element of the page.
C29_StopsOnEmptyOrShorterThanCallerFirst ==
  [][ PageRequestAnswered =>
        /\ StopsOnPage <=>
             \/ Len(PageRead) = 0
             \/ ("first" \in DOMAIN lst.options /\ Len(PageRead) < lst.options.first)
        /\ ~StopsOnPage =>
             lst'.searchAfter = offsetToCursor(PageRead[Len(PageRead)].sort) ]_vars

\* ------------------------------------------------------------------------
\* Specification of the order of the results of elPaginate. The engine sorts on
\* the one sort key of the body; documents with equal sort values come in an
\* order the engine chooses (the copy of the shard that answers), drawn here,
\* for each search, from the orders of the documents.
\* ------------------------------------------------------------------------
\* The relevance of a document for the free-text search of a body: a match of the
\* name counts five times a match of another field; 0 without search.
SearchTerms(body) ==
  { c.should[1].q[2] :
      c \in { m \in Range(body.must) :
                m.k = "bool" /\ m.should # << >> /\ m.should[1].k = "query_string" } }

Relevance(body, d) ==
  IF SearchTerms(body) = {} THEN 0
  ELSE IF d.name \in SearchTerms(body) THEN 5
  ELSE IF TextValues(d) \cap SearchTerms(body) # {} THEN 1
  ELSE 0

SortKey(body, d) ==
  IF body.sort[1].field = "_score" THEN Relevance(body, d)
  ELSE SortRank(body.sort[1].field, SortValue(d, body.sort[1].field))

SortsBeforeTied(body, a, b, tie) ==
  IF SortKey(body, a) = SortKey(body, b) THEN tie[a.internal_id] < tie[b.internal_id]
  ELSE IF body.sort[1].mode = "asc" THEN SortKey(body, a) < SortKey(body, b)
  ELSE SortKey(body, a) > SortKey(body, b)

SearchHitsTied(idx, body, page) ==
  [ i \in DOMAIN page |->
      [ source |-> idx[page[i]],
        sort |-> << IF body.sort[1].field = "_score" THEN Relevance(body, idx[page[i]])
                    ELSE SortValue(idx[page[i]], body.sort[1].field) >> ] ]

SearchTiedOf(idx, body, matching, tie) ==
  [ hits |-> SearchHitsTied(idx, body,
               SearchPage(body.size,
                 SortSeq(SetToSeq(matching),
                         LAMBDA a, b : SortsBeforeTied(body, idx[a], idx[b], tie)))),
    total |-> Cardinality(matching) ]

SearchTied(idx, indices, body, tie) ==
  SearchTiedOf(idx, body, MatchingIds(idx, indices, body), tie)

elPaginateTiedBody(idx, indexName, options, body, tie) ==
  IF body.size > ES_MAX_PAGINATION
  THEN [ err |-> "DatabaseError", value |-> <<>>, searches |-> 0, queries |-> <<>> ]
  ELSE Spread(elPaginateData(options, body, SearchTied(idx, indexName, body, tie)),
              [ queries |-> << body >> ])

\* elPaginate when the engine orders tied documents by tie.
elPaginateTied(user, idx, indexName, options, tie) ==
  elPaginateTiedBody(idx, indexName, options, elPaginateQuery(user, options), tie)

OrderNames == { "apt", "zeus" }

OrderDates == { 20200115, 20210320 }

InitOrder ==
  /\ \E names \in [ ListIds -> OrderNames ], dates \in [ ListIds -> OrderDates ] :
       index = [ id \in ListIds |-> [ ListDoc(id, dates[id], Null) EXCEPT !.name = names[id] ] ]
  /\ cache = << >>
  /\ useCache = FALSE
  /\ io = NoIo
  /\ del = NoDel
  /\ rd = NoRd
  /\ lst = NoLst
  /\ cdc = NoCdc
  /\ blk = NoBlk

OrderOptions ==
  { [ connectionFormat |-> FALSE ],
    [ connectionFormat |-> FALSE, first |-> 2 ],
    [ connectionFormat |-> FALSE, orderBy |-> "created_at", orderMode |-> "asc" ],
    [ connectionFormat |-> FALSE, orderBy |-> "created_at", orderMode |-> "desc", first |-> 2 ],
    [ connectionFormat |-> FALSE, search |-> "apt" ],
    [ connectionFormat |-> FALSE, search |-> "Report", first |-> 2 ],
    [ connectionFormat |-> FALSE, search |-> "apt", orderBy |-> "created_at",
      orderMode |-> "asc" ] }

\* The orders of the documents the engine may follow for tied documents.
TieOrders == { t \in [ ListIds -> 1..Cardinality(ListIds) ] : \A a, b \in ListIds : a # b => t[a] # t[b] }

ElementIdList(elements) == [ i \in DOMAIN elements |-> elements[i].internal_id ]

\* A first call of elPaginate, then a second call with the same arguments on the
\* same store.
OrderFirstReturned(user, options, r) ==
  /\ rd' = [ op |-> "elPaginate", pc |-> "first", user |-> user, options |-> options,
             err |-> r.err, first |-> ElementIdList(r.value), second |-> << >>,
             sort |-> r.queries[1].sort[1] ]
  /\ UNCHANGED << index, cache, useCache, io, del, lst, cdc, blk >>

OrderFirstCall ==
  /\ rd = NoRd
  /\ \E user \in ListUsers, options \in OrderOptions, tie \in TieOrders :
       OrderFirstReturned(user, options,
                          elPaginateTied(user, index, READ_DATA_INDICES, options, tie))

OrderSecondReturned(r) ==
  /\ rd' = [ rd EXCEPT !.pc = "second", !.second = ElementIdList(r.value) ]
  /\ UNCHANGED << index, cache, useCache, io, del, lst, cdc, blk >>

OrderSecondCall ==
  /\ rd.op = "elPaginate"
  /\ "pc" \in DOMAIN rd
  /\ rd.pc = "first"
  /\ \E tie \in TieOrders :
       OrderSecondReturned(elPaginateTied(rd.user, index, READ_DATA_INDICES, rd.options, tie))

NextOrder == OrderFirstCall \/ OrderSecondCall

SpecOrder == InitOrder /\ [][NextOrder]_vars

TwoCallsDone == rd.op = "elPaginate" /\ "pc" \in DOMAIN rd /\ rd.pc = "second"

\* The list of ids follows the rule of the options: the orderBy field, else the
\* relevance of the search, else the standard identifier ascending.
FollowsRule(ids) ==
  \A i, j \in DOMAIN ids :
    i < j =>
      IF "orderBy" \in DOMAIN rd.options
      THEN IF rd.options.orderMode = "asc"
           THEN index[ids[i]].created_at <= index[ids[j]].created_at
           ELSE index[ids[i]].created_at >= index[ids[j]].created_at
      ELSE IF "search" \in DOMAIN rd.options
      THEN (index[ids[i]].name = rd.options.search) \/ (index[ids[j]].name # rd.options.search)
      ELSE StdRank(index[ids[i]].standard_id) < StdRank(index[ids[j]].standard_id)

\* C30: two elPaginate calls with the same arguments on the same store return the
\* same elements in the same order, and the order follows the orderBy field, else
\* the relevance of the search, else the standard identifier ascending.
C30_SameArgumentsSameResult ==
  TwoCallsDone =>
    /\ rd.first = rd.second
    /\ FollowsRule(rd.first)
    /\ FollowsRule(rd.second)

\* What the code keeps: each result follows the rule, and the two results are the
\* same list when the sort values of the matching documents are pairwise distinct
\* (always so without orderBy and without search).
C30_SameResultWithoutTies ==
  TwoCallsDone =>
    /\ FollowsRule(rd.first)
    /\ FollowsRule(rd.second)
    /\ rd.sort.field = "standard_id.keyword" => rd.first = rd.second
    /\ ( /\ rd.sort.field = "created_at"
         /\ \A a, b \in DOMAIN index : a # b => index[a].created_at # index[b].created_at )
         => rd.first = rd.second

\* ------------------------------------------------------------------------
\* Specification of elReplace: one scripted update of a document, applied by
\* the engine on the version of the document it holds when the script runs
\* (retry_on_conflict), while other updates of the document land
\* ------------------------------------------------------------------------
\* A JSON value is [t, v]: its type and its content as a list of strings
\* (nothing for null / undefined, the characters of a string as one entry, the
\* entries of an array). A document is a function from its field names to values.
NilValue == [ t |-> "nil", v |-> << >> ]

StringValue(s) == [ t |-> "string", v |-> << s >> ]

ArrayValue(entries) == [ t |-> "array", v |-> entries ]

\* isEmptyField(val): R.isEmpty(val) || R.isNil(val).
isEmptyField(val) ==
  \/ val.t = "nil"
  \/ val.t = "string" /\ val.v = << "" >>
  \/ val.t = "array" /\ val.v = << >>

\* The statements of the script elReplace builds from the entries of the
\* document without its _index, in the order of the entries.
elReplaceAssignAll(doc) ==
  LET entries == SetToSeq(DOMAIN dissoc("_index", doc))
  IN [ i \in DOMAIN entries |-> [ k |-> "assign", key |-> entries[i] ] ]

elReplaceSources(doc) ==
  LET entries == SetToSeq(DOMAIN dissoc("_index", doc))
  IN [ i \in DOMAIN entries |->
         IF isEmptyField(doc[entries[i]])
         THEN [ k |-> "remove", key |-> entries[i] ]
         ELSE [ k |-> "assign", key |-> entries[i] ] ]

\* The engine runs the statements on the source of the document: ctx._source.remove(key)
\* and ctx._source[key] = params[key].
RECURSIVE ApplyReplaceSources(_, _, _)
ApplyReplaceSources(source, rawSources, params) ==
  IF rawSources = << >> THEN source
  ELSE LET s == Head(rawSources)
           next == IF s.k = "remove" THEN dissoc(s.key, source)
                   ELSE [ f \in DOMAIN source \cup { s.key } |->
                            IF f = s.key THEN params[s.key] ELSE source[f] ]
       IN ApplyReplaceSources(next, Tail(rawSources), params)

\* elReplace: the update request it sends to the engine.
elReplaceRequest(documentId, documentBody) ==
  [ id |-> documentId,
    script |-> [ source |-> elReplaceSources(documentBody.doc),
                 params |-> dissoc("_index", documentBody.doc) ] ]

ReplaceFields == { "name", "description", "aliases" }

ReplaceGiven(f) ==
  CASE f = "name" -> { StringValue("a"), StringValue("") }
    [] f = "description" -> { StringValue("d"), NilValue }
    [] f = "aliases" -> { ArrayValue(<< "x" >>), ArrayValue(<< >>) }
    [] f = "_index" -> { StringValue("opencti_stix_domain_objects") }

ReplaceOthers(f) ==
  CASE f = "name" -> StringValue("b")
    [] f = "description" -> StringValue("e")
    [] f = "aliases" -> ArrayValue(<< "y" >>)

\* The documents with fields of S, every field with one of the values of values.
DocsOver(S, values(_)) ==
  { d \in [ S -> UNION { values(f) : f \in S } ] : \A f \in S : d[f] \in values(f) }

ReplaceStoredValues(f) == { CHOOSE v \in ReplaceGiven(f) : ~isEmptyField(v), ReplaceOthers(f) }

ReplaceIdle(stored) == [ pc |-> "idle", stored |-> stored ]

InitReplace ==
  /\ index = << >>
  /\ cache = << >>
  /\ useCache = FALSE
  /\ io = NoIo
  /\ del = NoDel
  /\ rd = NoRd
  /\ lst = NoLst
  /\ blk = NoBlk
  /\ \E S \in SUBSET ReplaceFields : \E stored \in DocsOver(S, ReplaceStoredValues) :
       cdc = ReplaceIdle(stored)

ReplaceUnchanged == UNCHANGED << index, cache, useCache, io, del, rd, lst, blk >>

\* elReplace(indexName, documentId, { doc }): the update is sent.
ReplaceCall ==
  /\ cdc.pc = "idle"
  /\ \E S \in SUBSET (ReplaceFields \cup { "_index" }) : \E doc \in DocsOver(S, ReplaceGiven) :
       cdc' = [ pc |-> "sent", stored |-> cdc.stored, doc |-> doc,
                request |-> elReplaceRequest("d1", [ doc |-> doc ]), raced |-> {} ]
  /\ ReplaceUnchanged

\* Another update of the document (an attribute update) lands while the
\* request of elReplace is on its way.
ReplaceOtherUpdateLands ==
  /\ cdc.pc = "sent"
  /\ \E f \in ReplaceFields \ cdc.raced :
       cdc' = [ cdc EXCEPT
                  !.stored = [ g \in DOMAIN cdc.stored \cup { f } |->
                                 IF g = f THEN ReplaceOthers(f) ELSE cdc.stored[g] ],
                  !.raced = @ \cup { f } ]
  /\ ReplaceUnchanged

\* The engine applies the script on the document as it is now.
ReplaceApplied ==
  /\ cdc.pc = "sent"
  /\ cdc' = [ pc |-> "applied",
              stored |-> ApplyReplaceSources(cdc.stored, cdc.request.script.source,
                                             cdc.request.script.params),
              doc |-> cdc.doc, raced |-> cdc.raced, before |-> cdc.stored ]
  /\ ReplaceUnchanged

ReplaceReturns ==
  /\ cdc.pc = "applied"
  /\ cdc' = ReplaceIdle(cdc.stored)
  /\ ReplaceUnchanged

NextReplace ==
  \/ ReplaceCall
  \/ ReplaceOtherUpdateLands
  \/ ReplaceApplied
  \/ ReplaceReturns

SpecReplace == InitReplace /\ [][NextReplace]_vars

\* C31: when the script of elReplace is applied, every field of the given
\* document (the index name, which is no field of the source, apart) is removed
\* if its given value is empty and holds the given value otherwise, and every
\* other field is as it was just before the script ran, a value written by
\* another update in the meantime included.
C31_OnlyGivenFieldsChanged ==
  [][ (cdc.pc = "sent" /\ cdc'.pc = "applied") =>
        /\ "_index" \notin DOMAIN cdc'.stored
        /\ \A f \in ReplaceFields :
             IF f \in DOMAIN cdc.doc
             THEN IF isEmptyField(cdc.doc[f]) THEN f \notin DOMAIN cdc'.stored
                  ELSE f \in DOMAIN cdc'.stored /\ cdc'.stored[f] = cdc.doc[f]
             ELSE /\ f \in DOMAIN cdc'.stored <=> f \in DOMAIN cdc.stored
                  /\ f \in DOMAIN cdc.stored => cdc'.stored[f] = cdc.stored[f] ]_vars

\* A script was applied that removed a stored field, set another, and left alone
\* a field written by another update while the request was on its way.
C31_RacedFieldKept ==
  /\ cdc.pc = "applied"
  /\ \E f \in DOMAIN cdc.doc \cap DOMAIN cdc.before :
       isEmptyField(cdc.doc[f]) /\ f \notin DOMAIN cdc.stored
  /\ \E f \in DOMAIN cdc.doc \cap ReplaceFields :
       ~isEmptyField(cdc.doc[f]) /\ cdc.stored[f] = cdc.doc[f]
       /\ (f \notin DOMAIN cdc.before \/ cdc.before[f] # cdc.doc[f])
  /\ \E f \in cdc.raced \ DOMAIN cdc.doc : cdc.stored[f] = ReplaceOthers(f)

\* ------------------------------------------------------------------------
\* Specification of elUpdateEntityConnections: the scripted updates of the
\* reference fields of entities, one bulk per call
\* ------------------------------------------------------------------------
\* The source of an entity is a function from the reference fields it holds to
\* their content, a list of JSON values: an id is a string value, and an entry
\* that is itself a list is an array value. An update is
\* [id, relationType, toReplace, internal_id]: toReplace is NilValue or an id,
\* internal_id (doc.data.internal_id) an id or an array of ids.
IdValues(ids) == [ i \in DOMAIN ids |-> StringValue(ids[i]) ]

addMultipleFormat(doc) ==
  IF doc.toReplace = NilValue /\ doc.internal_id.t # "array"
  THEN ArrayValue(doc.internal_id.v)
  ELSE doc.internal_id

\* The script of elUpdateEntityConnections on the source of a document.
entityConnectionsScript(source, params) ==
  [ f \in DOMAIN source \cup { params.key } |->
      IF f # params.key THEN source[f]
      ELSE IF f \notin DOMAIN source THEN << params.to >>
      ELSE IF params.from = NilValue THEN source[f] \o IdValues(params.to.v)
      ELSE << params.to >> \o SelectSeq(source[f], LAMBDA current : current # params.from) ]

entityConnectionsParams(doc) ==
  [ key |-> buildRefRelationKey(doc.relationType), from |-> doc.toReplace,
    to |-> addMultipleFormat(doc) ]

\* The bulk of the updates, applied one by one: [stored, failed], an update of a
\* document that does not exist being a failed item.
RECURSIVE entityConnectionsBulk(_, _)
entityConnectionsBulk(stored, elements) ==
  IF elements = << >> THEN [ stored |-> stored, failed |-> 0 ]
  ELSE LET doc == Head(elements)
           exists == doc.id \in DOMAIN stored
           rest == entityConnectionsBulk(
                     IF exists
                     THEN [ stored EXCEPT ![doc.id] =
                              entityConnectionsScript(@, entityConnectionsParams(doc)) ]
                     ELSE stored, Tail(elements))
       IN [ stored |-> rest.stored, failed |-> rest.failed + (IF exists THEN 0 ELSE 1) ]

\* elUpdateEntityConnections(elements): [err, stored, cache, bulks].
elUpdateEntityConnections(stored, cch, elements) ==
  IF Len(elements) > 0
  THEN LET r == entityConnectionsBulk(stored, elements)
       IN [ err |-> IF r.failed > 0 THEN "DatabaseError" ELSE "none", stored |-> r.stored,
            cache |-> cacheDel(cch, { elements[i].id : i \in DOMAIN elements }), bulks |-> 1 ]
  ELSE [ err |-> "none", stored |-> stored, cache |-> cch, bulks |-> 0 ]

\* Bound of the model on the updates of one call.
MaxUpdates == 2

ConnectionFields ==
  { << >>, << StringValue("e2") >>, << StringValue("e2"), StringValue("e3") >>,
    << StringValue("e3"), StringValue("e2"), StringValue("e3") >> }

ConnectionUpdates ==
  [ id : { "e1", "e9" }, relationType : { RELATION_RELATED_TO, RELATION_INDICATES },
    toReplace : { NilValue, StringValue("e2") },
    internal_id : { StringValue("e4"), ArrayValue(<< "e4", "e5" >>) } ]

ConnectionsIdle(stored) == [ pc |-> "idle", stored |-> stored ]

InitConnections ==
  /\ index = << >>
  /\ \E cached \in SUBSET { "e1" } : cache = [ id \in cached |-> NullElement ]
  /\ useCache = TRUE
  /\ io = NoIo
  /\ del = NoDel
  /\ rd = NoRd
  /\ lst = NoLst
  /\ cdc = NoCdc
  /\ \E held \in { << >> } \cup { << f >> : f \in ConnectionFields } :
       blk = ConnectionsIdle(
               [ id \in { "e1" } |->
                   [ k \in { buildRefRelationKey(RELATION_RELATED_TO) : i \in DOMAIN held } |->
                       held[1] ] ])

ElUpdateEntityConnectionsReturned(elements, r) ==
  /\ blk' = [ pc |-> "returned", stored |-> r.stored, before |-> blk.stored,
              elements |-> elements, err |-> r.err, bulks |-> r.bulks ]
  /\ cache' = r.cache

ElUpdateEntityConnections ==
  /\ blk.pc = "idle"
  /\ \E n \in 0..MaxUpdates : \E elements \in [ 1..n -> ConnectionUpdates ] :
       ElUpdateEntityConnectionsReturned(
         elements, elUpdateEntityConnections(blk.stored, cache, elements))
  /\ UNCHANGED << index, useCache, io, del, rd, lst, cdc >>

NextConnections == ElUpdateEntityConnections

SpecConnections == InitConnections /\ [][NextConnections]_vars

\* The updates of a returned call that are the only ones of their field, on a
\* document that exists.
SingleUpdates ==
  { i \in DOMAIN blk.elements :
      /\ blk.elements[i].id \in DOMAIN blk.before
      /\ \A j \in DOMAIN blk.elements \ { i } :
           blk.elements[j].id # blk.elements[i].id
           \/ blk.elements[j].relationType # blk.elements[i].relationType }

IsFlat(field) == \A i \in DOMAIN field : field[i].t = "string"

NewIds(doc) == IdValues(doc.internal_id.v)

\* C32: after each update {key, from, to} the field is a flat list of ids: the
\* new id(s) alone if the field was absent; the old entries followed by the new
\* id(s) if from is null; otherwise the new id(s) and every old entry other than
\* from, the old entries in their order.
C32_FieldEndsAsFlatListOfIds ==
  blk.pc = "returned" =>
    \A i \in SingleUpdates :
      LET doc == blk.elements[i]
          key == buildRefRelationKey(doc.relationType)
          after == blk.stored[doc.id][key]
          old == blk.before[doc.id]
      IN /\ IsFlat(after)
         /\ IF key \notin DOMAIN old THEN after = NewIds(doc)
            ELSE IF doc.toReplace = NilValue THEN after = old[key] \o NewIds(doc)
            ELSE /\ Range(after) = (Range(old[key]) \ { doc.toReplace }) \cup Range(NewIds(doc))
                 /\ SelectSeq(after, LAMBDA c : c \in Range(old[key]) \ { doc.toReplace })
                      = SelectSeq(old[key], LAMBDA c : c # doc.toReplace)

\* What the script keeps: a field that was absent holds one entry, the value
\* given to the script (a list of ids when nothing is replaced); with from null
\* the new ids follow the old entries; otherwise the given value comes first,
\* followed by the old entries other than from.
C32_FieldAsTheScriptLeavesIt ==
  blk.pc = "returned" =>
    \A i \in SingleUpdates :
      LET doc == blk.elements[i]
          key == buildRefRelationKey(doc.relationType)
          after == blk.stored[doc.id][key]
          old == blk.before[doc.id]
      IN IF key \notin DOMAIN old
         THEN after = << IF doc.toReplace = NilValue THEN ArrayValue(doc.internal_id.v)
                         ELSE doc.internal_id >>
         ELSE IF doc.toReplace = NilValue THEN after = old[key] \o NewIds(doc)
         ELSE after = << doc.internal_id >>
                        \o SelectSeq(old[key], LAMBDA c : c # doc.toReplace)

\* An id was added to a field that did not exist, nothing being replaced: the
\* field holds a list in a list.
C32_NestedListStored ==
  /\ blk.pc = "returned"
  /\ \E i \in SingleUpdates :
       LET doc == blk.elements[i]
           key == buildRefRelationKey(doc.relationType)
       IN /\ key \notin DOMAIN blk.before[doc.id]
          /\ doc.toReplace = NilValue
          /\ doc.internal_id = StringValue("e4")
          /\ blk.stored[doc.id][key] = << ArrayValue(<< "e4" >>) >>

\* ------------------------------------------------------------------------
\* Specification of prepareElementForIndexing on elements with attributes of
\* every JSON type
\* ------------------------------------------------------------------------
\* A scalar is [t, v] as above (NilValue, StringValue, and the two below); an
\* array attribute is [t |-> "array", entries], entries being a list of scalars.
NumberValue(n) == [ t |-> "number", v |-> << n >> ]

BooleanValue(b) == [ t |-> "boolean", v |-> << b >> ]

ArrayOf(entries) == [ t |-> "array", entries |-> entries ]

IsArray(value) == value.t = "array"

\* The truth value JavaScript gives a scalar: null, undefined, the empty string,
\* 0, NaN and false are falsy.
Truthy(i) ==
  CASE i.t = "nil" -> FALSE
    [] i.t = "string" -> i.v # << "" >>
    [] i.t = "number" -> i.v \notin { << "0" >>, << "NaN" >> }
    [] i.t = "boolean" -> i.v = << "true" >>

\* isBooleanAttribute(key), of the schema.
isBooleanAttribute(key) == key \in { "revoked" }

toLowerCase(s) ==
  CASE s \in { "true", "True", "TRUE" } -> "true"
    [] s \in { "false", "False" } -> "false"
    [] OTHER -> s

\* typeof value === 'boolean' ? value : value?.toLowerCase() === 'true'
castBoolean(value) ==
  CASE value.t = "boolean" -> value
    [] value.t = "string" ->
         BooleanValue(IF toLowerCase(value.v[1]) = "true" THEN "true" ELSE "false")
    [] value.t = "nil" -> BooleanValue("false")

\* value.filter((i) => i)
filteredArray(value) == SelectSeq(value.entries, LAMBDA i : Truthy(i))

prepareThing(element) ==
  [ key \in DOMAIN element |->
      IF IsArray(element[key])
      THEN ArrayOf(IF Len(filteredArray(element[key])) > 0
                   THEN filteredArray(element[key]) ELSE << >>)
      ELSE IF isBooleanAttribute(key) THEN castBoolean(element[key])
      ELSE element[key] ]

\* Bound of the model on the entries of an array attribute.
MaxEntries == 2

PrepareEntries ==
  { NilValue, StringValue(""), StringValue("a"), NumberValue("0"), NumberValue("1"),
    BooleanValue("false") }

PrepareValues(key) ==
  CASE key = "name" -> { StringValue("n"), StringValue("") }
    [] key = "confidence" -> { NumberValue("0"), NilValue }
    [] key = "revoked" -> { BooleanValue("true"), BooleanValue("false"), StringValue("True"),
                            StringValue("false"), NilValue }
    [] key = "aliases" ->
         { ArrayOf(entries) : entries \in UNION { [ 1..n -> PrepareEntries ] : n \in 0..MaxEntries } }

PrepareKeys == { "name", "confidence", "revoked", "aliases" }

InitPrepare ==
  /\ index = << >>
  /\ cache = << >>
  /\ useCache = FALSE
  /\ io = NoIo
  /\ del = NoDel
  /\ rd = NoRd
  /\ lst = NoLst
  /\ blk = NoBlk
  /\ \E S \in SUBSET PrepareKeys :
       \E element \in { e \in [ S -> UNION { PrepareValues(k) : k \in S } ] :
                          \A k \in S : e[k] \in PrepareValues(k) } :
         cdc = [ pc |-> "given", element |-> element ]

PrepareElementForIndexing ==
  /\ cdc.pc = "given"
  /\ cdc' = [ pc |-> "prepared", element |-> cdc.element, thing |-> prepareThing(cdc.element) ]
  /\ UNCHANGED << index, cache, useCache, io, del, rd, lst, blk >>

NextPrepare == PrepareElementForIndexing

SpecPrepare == InitPrepare /\ [][NextPrepare]_vars

\* C33: the prepared element has every key of the element; an array attribute
\* holds exactly the non-null entries of the array in their order (an empty
\* array when none is left); an attribute that is neither an array nor a boolean
\* attribute is unchanged.
C33_ArraysKeepNonNullEntries ==
  cdc.pc = "prepared" =>
    /\ DOMAIN cdc.thing = DOMAIN cdc.element
    /\ \A key \in DOMAIN cdc.element :
         IF IsArray(cdc.element[key])
         THEN /\ IsArray(cdc.thing[key])
              /\ cdc.thing[key].entries
                   = SelectSeq(cdc.element[key].entries, LAMBDA i : i.t # "nil")
         ELSE isBooleanAttribute(key) \/ cdc.thing[key] = cdc.element[key]

\* What the code keeps: the same, the entries kept being the truthy ones.
C33_ArraysKeepTruthyEntries ==
  cdc.pc = "prepared" =>
    /\ DOMAIN cdc.thing = DOMAIN cdc.element
    /\ \A key \in DOMAIN cdc.element :
         IF IsArray(cdc.element[key])
         THEN /\ IsArray(cdc.thing[key])
              /\ cdc.thing[key].entries = SelectSeq(cdc.element[key].entries, Truthy)
         ELSE isBooleanAttribute(key) \/ cdc.thing[key] = cdc.element[key]

\* An array with an empty string and an id was prepared, and the empty string
\* is gone.
C33_EmptyStringDropped ==
  /\ cdc.pc = "prepared"
  /\ "aliases" \in DOMAIN cdc.element
  /\ cdc.element["aliases"].entries = << StringValue(""), StringValue("a") >>
  /\ cdc.thing["aliases"].entries = << StringValue("a") >>

\* ------------------------------------------------------------------------
\* Specification of the cascading deletion over an engine that refuses items
\* of the bulks it is sent
\* ------------------------------------------------------------------------
\* elBulk on an engine that refuses the operations of refused: [err, idx, items].
\* A bulk request without operation is refused whole.
elBulkOver(idx, body, refused) ==
  IF body = << >> THEN Spread(elBulk(idx, body), [ items |-> << >> ])
  ELSE [ err |-> elBulkRefusing(idx, body, refused).err,
         idx |-> elBulkRefusing(idx, body, refused).idx,
         items |-> elBulkRefusing(idx, body, refused).items ]

\* The bulk the call has just been answered: its phase, its operations, the items
\* of the response, and the operations applied by the earlier bulks of the call.
BulkAnswered(phase, body, response) ==
  [ pc |-> "answered", phase |-> phase, body |-> body, items |-> response.items,
    err |-> response.err,
    applied |-> IF blk.pc = "answered" THEN blk.applied \o blk.body ELSE << >> ]

\* One group of cleanups: elRemoveRelationConnection reads the elements to clean
\* and sends its bulk, of which the engine refuses some operations.
RaiseCleaned(relsFromTo, left, found, body, response) ==
  /\ DelCleaned(IF found.err # "none" THEN elRemoveRelationConnectionFound(index, relsFromTo, found)
                ELSE elRemoveRelationConnectionBulk(found, response), left)
  /\ blk' = IF found.err # "none" THEN blk ELSE BulkAnswered("cleanup", body, response)

RaiseCleanupFound(relsFromTo, left, found, body) ==
  \E refused \in SUBSET (1..Len(body)) :
    RaiseCleaned(relsFromTo, left, found, body, elBulkOver(index, body, refused))

RaiseCleanupGroup(relsFromTo, left, found) ==
  RaiseCleanupFound(relsFromTo, left, found, bodyUpdateOf(relsFromTo, indexCacheOf(found.hits)))

RaiseCleanup ==
  /\ del.pc = "cleanup"
  /\ \E i \in 1..Min(Len(del.groupsOfRelsFromTo), ES_MAX_CONCURRENCY) :
       RaiseCleanupGroup(del.groupsOfRelsFromTo[i], RemoveAt(del.groupsOfRelsFromTo, i),
                         elFindByIds(del.user, index, useCache, cache,
                                     idsToResolve(del.groupsOfRelsFromTo[i]),
                                     READ_DATA_INDICES, NullId))
  /\ UNCHANGED << useCache, rd, lst, cdc >>

\* One group of relationship deletions, of which the engine refuses some.
RaiseDeleted(instances, left, response) ==
  /\ DelDeletedRelations(elDeleteInstanceIdsBulk(cache, instances, response), left)
  /\ blk' = BulkAnswered("delete_rels", DeleteOps(instances), response)

RaiseDeleteRelations ==
  /\ del.pc = "delete_rels"
  /\ \E i \in 1..Min(Len(del.groupsOfDeletions), ES_MAX_CONCURRENCY) :
       \E refused \in SUBSET (1..Len(del.groupsOfDeletions[i])) :
         RaiseDeleted(del.groupsOfDeletions[i], RemoveAt(del.groupsOfDeletions, i),
                      elBulkOver(index, DeleteOps(del.groupsOfDeletions[i]), refused))
  /\ UNCHANGED << useCache, rd, lst, cdc >>

\* The deletion of the target elements.
RaiseDeleteTargets ==
  /\ del.pc = "delete_targets"
  /\ DelDeletedTargets(elDeleteInstanceIds(index, cache, del.elements))
  /\ blk' = BulkAnswered("delete_targets", DeleteOps(del.elements),
                         [ err |-> "none", items |-> << >> ])
  /\ UNCHANGED << useCache, rd, lst, cdc >>

\* The call has returned or raised.
RaiseReturn ==
  /\ del.pc \in { "done", "failed" }
  /\ del' = NoDel
  /\ blk' = NoBlk
  /\ UNCHANGED << index, cache, useCache, io, rd, lst, cdc >>

\* elDeleteElements called by a user with BYPASS on e1, alone or with another
\* stored element.
RaiseDeleteElements ==
  \E ids \in TargetLists :
    /\ io.calls < MaxDeletions
    /\ "e1" \in Range(ids)
    /\ ElDeleteElements(AdminUser, [ i \in DOMAIN ids |-> LoadedElement(index, ids[i]) ])

NextRaise ==
  \/ IndexRelations
  \/ RaiseDeleteElements
  \/ DelDiscover
  \/ DelLoad
  \/ RaiseCleanup
  \/ RaiseDeleteRelations
  \/ RaiseDeleteTargets
  \/ RaiseReturn

SpecRaise == InitDelete /\ [][NextRaise]_vars

\* The effect of an applied operation is in the store: a deleted document is
\* not stored, and a document cleaned of a reference does not hold it.
Applied(op) ==
  CASE op.op = "delete" -> op.id \notin DOMAIN index
    [] op.op = "update" ->
         op.id \in DOMAIN index /\ index[op.id].rel[op.script.field] # Null =>
           op.script.key \notin Range(index[op.id].rel[op.script.field])

FailedBulk ==
  /\ blk.pc = "answered"
  /\ blk.phase \in { "cleanup", "delete_rels" }
  /\ blk.err # "none"

TargetsNotDiscovered ==
  { del.elements[i].internal_id : i \in DOMAIN del.elements }
    \ { del.relationsToRemove[i].internal_id : i \in DOMAIN del.relationsToRemove }

\* C34: when a cleanup bulk or a relationship-deletion bulk of the call has
\* failed, the call has raised a DatabaseError, no bulk of a later phase has been
\* sent (the target elements are still stored), and every operation applied by
\* the failed bulk and by the bulks before it is still applied.
C34_FailedBulkRaisesAndKeepsApplied ==
  FailedBulk =>
    /\ del.pc = "failed"
    /\ io.err = "DatabaseError"
    /\ \A id \in TargetsNotDiscovered : id \in DOMAIN index
    /\ blk.phase = "cleanup" =>
         \A i \in DOMAIN del.relationsToRemove :
           /\ del.relationsToRemove[i].internal_id \in DOMAIN index
           /\ del.groupsOfDeletions # << >>
    /\ \A i \in DOMAIN blk.items : blk.items[i].error = NoError => Applied(blk.body[i])
    /\ \A i \in DOMAIN blk.applied : Applied(blk.applied[i])

\* A relationship-deletion bulk has failed on one of two relationships: the
\* other is deleted, the cleanup made before is kept, and the target is stored.
C34_DeletionFailedAfterCleanup ==
  /\ FailedBulk
  /\ blk.phase = "delete_rels"
  /\ \E i \in DOMAIN blk.applied : blk.applied[i].op = "update"
  /\ \E i \in DOMAIN blk.items : blk.items[i].error = NoError
  /\ \E i \in DOMAIN blk.items : blk.items[i].error # NoError
  /\ TargetsNotDiscovered # {}

\* ------------------------------------------------------------------------
\* Specification of the reads over a store that holds a relationship written
\* with roles that may not be the roles of its type
\* ------------------------------------------------------------------------
DecodeStore == [ id \in EntityIds |-> EntityDoc(id, "Malware", Null, 0) ]

InitDecode ==
  /\ index = DecodeStore
  /\ cache = << >>
  /\ \E on \in BOOLEAN : useCache = on
  /\ io = NoIo
  /\ del = NoDel
  /\ rd = NoRd
  /\ lst = NoLst
  /\ cdc = NoCdc
  /\ blk = NoBlk

\* elIndexElements writes r1 between e1 and e2 with the roles its caller gives.
DecodeIndex ==
  /\ "r1" \notin DOMAIN index
  /\ \E type \in CodecTypes :
     \E fromRole \in CodecRoles(type) \ { Null }, toRole \in CodecRoles(type) \ { Null } :
       ElIndexElements(<< RelationElement("r1", type, index["e1"], index["e2"],
                                          fromRole, toRole) >>)

DecodeOptions ==
  { [ connectionFormat |-> FALSE ],
    [ connectionFormat |-> FALSE, types |-> << RELATION_RELATED_TO >> ],
    [ connectionFormat |-> FALSE, ids |-> << "e1", "r1" >> ],
    [ connectionFormat |-> FALSE, types |-> << "Malware" >> ] }

DecodePaginate ==
  /\ rd = NoRd
  /\ "r1" \in DOMAIN index
  /\ \E user \in DeleteUsers, options \in DecodeOptions :
       ElPaginateReturned(user, elPaginate(user, index, READ_DATA_INDICES, options))

DecodeFindByIds ==
  /\ rd = NoRd
  /\ "r1" \in DOMAIN index
  /\ \E user \in DeleteUsers, ids \in { << "r1" >>, << "e1", "r1" >>, << "e1", "e2" >> } :
       ElFindByIdsReturned("elFindByIds", user, ids, NullId, READ_DATA_INDICES,
                           elFindByIds(user, index, useCache, cache, ids, READ_DATA_INDICES,
                                       NullId))

NextDecode ==
  \/ DecodeIndex
  \/ DecodePaginate
  \/ DecodeFindByIds

SpecDecode == InitDecode /\ [][NextDecode]_vars

\* The search of the read has a hit that cannot be decoded: a relationship
\* without the connection of role <entity_type>_from or <entity_type>_to.
UndecodableHit ==
  /\ rd.op # "none"
  /\ \E q \in DOMAIN rd.queries :
       \E id \in MatchingIds(index, READ_DATA_INDICES, rd.queries[q]) :
         /\ index[id].base_type = BASE_TYPE_RELATION
         /\ \/ \A c \in DOMAIN index[id].connections :
                 index[id].connections[c].role # RoleOf(index[id].entity_type, ROLE_FROM)
            \/ \A c \in DOMAIN index[id].connections :
                 index[id].connections[c].role # RoleOf(index[id].entity_type, ROLE_TO)

\* C35: a read whose search hits a relationship document that lacks one of the
\* two connections fails, and the error that reaches its caller is the error of
\* the decoding (the integrity error, of class DatabaseError in this module);
\* no element is returned.
C35_DecodeErrorReachesCaller ==
  UndecodableHit =>
    /\ rd.err \in { "DataIntegrityError", "DatabaseError" }
    /\ rd.ids = {}

\* What the code keeps: the read fails and returns no element; elFindByIds raises
\* the DatabaseError of the decoding and caches nothing, elPaginate raises the
\* TypeError of its catch handler.
C35_UndecodableHitFailsTheRead ==
  UndecodableHit =>
    /\ rd.ids = {}
    /\ rd.op = "elFindByIds" => rd.err = "DatabaseError" /\ cache = << >>
    /\ rd.op = "elPaginate" => rd.err = "TypeError"

\* elPaginate has hit r1 written with the from role of another type.
C35_PaginateRaisedTypeError ==
  /\ UndecodableHit
  /\ rd.op = "elPaginate"
  /\ rd.err = "TypeError"

\* ------------------------------------------------------------------------
\* Specification of elList over corpora larger than a page. The corpus is the
\* number of documents that match the filters and are visible to the user;
\* their sort keys are distinct, so a document is its rank in the sort order,
\* and the engine answers a page request with the next ranks after the cursor.
\* ------------------------------------------------------------------------
RankedHits(total, size, after) ==
  [ i \in 1..(Min(after + size, total) - Min(after, total)) |->
      [ internal_id |-> after + i, sort |-> << after + i >> ] ]

\* elPaginate on such a corpus, connectionFormat being false:
\* [err, value, searches, queries].
elPaginateRanked(total, options) ==
  IF Opt(options, "first", DEFAULT_FIRST) > ES_MAX_PAGINATION
  THEN [ err |-> "DatabaseError", value |-> << >>, searches |-> 0, queries |-> << >> ]
  ELSE [ err |-> "none",
         value |-> RankedHits(total, Opt(options, "first", DEFAULT_FIRST),
                              IF Opt(options, "after", Null) = Null THEN 0
                              ELSE cursorToOffset(options.after)[1]),
         searches |-> 1, queries |-> << >> ]

\* The sizes of the corpora and the first options of the callers, around the
\* size of a page.
PagesTotals ==
  { 0, 1, MAX_SEARCH_SIZE - 1, MAX_SEARCH_SIZE, MAX_SEARCH_SIZE + 1, 2 * MAX_SEARCH_SIZE,
    2 * MAX_SEARCH_SIZE + 1 }

PagesOptions ==
  { [ callback |-> FALSE ] }
    \cup { [ callback |-> FALSE, first |-> f ] :
             f \in { 1, MAX_SEARCH_SIZE, MAX_SEARCH_SIZE + 1, 2 * MAX_SEARCH_SIZE } }

InitPages ==
  /\ \E total \in PagesTotals : index = [ matching |-> total ]
  /\ cache = << >>
  /\ useCache = FALSE
  /\ io = NoIo
  /\ del = NoDel
  /\ rd = NoRd
  /\ lst = NoLst
  /\ cdc = NoCdc
  /\ blk = NoBlk

PagesCall ==
  /\ lst.pc = "idle"
  /\ \E options \in PagesOptions : ElListCalled(AdminUser, options)

PagesRequest ==
  /\ lst.pc = "loop"
  /\ elListContinues(lst.continueProcess, lst.hasNextPage)
  /\ ElListPaged(elPaginateRanked(index.matching, elListOpts(lst.options, lst.searchAfter)))

NextPages ==
  \/ PagesCall
  \/ PagesRequest
  \/ ElListPush
  \/ ElListReturn

SpecPages == InitPages /\ [][NextPages]_vars

\* The listing holds every document of the corpus once, in the sort order.
ListingComplete ==
  /\ Len(lst.listing) = index.matching
  /\ \A i \in DOMAIN lst.listing : lst.listing[i].internal_id = i

\* C36: over an unchanged corpus with distinct sort keys, elList without a
\* callback returns every matching visible element exactly once, whatever the
\* first option of the caller.
C36_ListingCompleteForAnyFirst ==
  lst.pc = "returned" => lst.err = "none" /\ ListingComplete

\* What the code keeps: the listing is complete when the caller gives no first
\* option or one that is at most the size of a page; with a greater one the
\* listing is the first page.
C36_ListingCompleteUpToPageSize ==
  lst.pc = "returned" =>
    /\ lst.err = "none"
    /\ IF "first" \in DOMAIN lst.options /\ lst.options.first > MAX_SEARCH_SIZE
       THEN /\ Len(lst.listing) = Min(index.matching, MAX_SEARCH_SIZE)
            /\ \A i \in DOMAIN lst.listing : lst.listing[i].internal_id = i
       ELSE ListingComplete

\* A corpus of one document more than a page, listed with a first option above
\* the size of a page: the listing is the first page.
C36_StoppedOnFullPage ==
  /\ lst.pc = "returned"
  /\ index.matching = MAX_SEARCH_SIZE + 1
  /\ lst.options.first = MAX_SEARCH_SIZE + 1
  /\ Len(lst.listing) = MAX_SEARCH_SIZE
  /\ lst.pages = 1

\* The relationships stored, and for a connection of one the id of the
\* opposite connection.
StoredRelationships == { id \in DOMAIN index : index[id].base_type = BASE_TYPE_RELATION }

ReferenceMissing(r, a, b) ==
  /\ a # b
  /\ isImpactedRole(index[r].connections[a].role)
  /\ index[r].connections[a].internal_id \in DOMAIN index
  /\ index[r].connections[b].internal_id
       \notin FieldIds(index, index[r].connections[a].internal_id,
                       buildRefRelationKey(index[r].entity_type))

\* C37: between the calls, every endpoint of a stored relationship whose role is
\* impacted (and that is itself stored) holds the id of the opposite endpoint in
\* its reference field of the relationship type.
C37_StoredRelationshipsReferenced ==
  del.pc = "idle" =>
    \A r \in StoredRelationships :
      \A a, b \in DOMAIN index[r].connections : ~ReferenceMissing(r, a, b)

\* Two related-to relationships between e1 and e2 were written and r1 was
\* deleted: r2 is stored and neither endpoint holds the id of the other.
C37_ReferencedAfterTwinDeleted ==
  /\ del.pc = "idle"
  /\ io.op = "elDeleteElements"
  /\ io.err = "none"
  /\ DOMAIN index = EntityIds \cup { "r2" }
  /\ index["r2"].entity_type = RELATION_RELATED_TO
  /\ ReferenceMissing("r2", 1, 2)
  /\ ReferenceMissing("r2", 2, 1)

\* ------------------------------------------------------------------------
\* Specification of the readers: elFindByIds awaits loadFromCache, then for
\* every group of ids el.search and cacheSet, and other requests run at each
\* await; elDeleteInstanceIds runs beside it. rd holds the reads in progress,
\* del.done the ids whose elDeleteInstanceIds has returned.
\* ------------------------------------------------------------------------
\* Bound of the model on the number of calls of one reader.
MaxCalls == 2

Readers == { 1, 2 }

ReaderIdle ==
  [ pc |-> "idle", ids |-> << >>, after |-> {}, cacheHits |-> << >>, groups |-> << >>,
    elasticHits |-> << >>, hits |-> << >>, err |-> "none", calls |-> 0 ]

InitReaders ==
  /\ index = [ id \in EntityIds |-> EntityDoc(id, "Malware", Null, 0) ]
  /\ cache = << >>
  /\ useCache \in BOOLEAN
  /\ io = NoIo
  /\ del = [ pc |-> "idle", done |-> {} ]
  /\ rd = [ r \in Readers |-> ReaderIdle ]
  /\ lst = NoLst
  /\ cdc = NoCdc
  /\ blk = NoBlk

\* const hits = { ...cacheHits, ...elasticHits }; Object.values(hits)
ReaderHits(cacheHits, elasticHits) ==
  SelectSeq(cacheHits,
            LAMBDA c : \A i \in DOMAIN elasticHits :
                         elasticHits[i].internal_id # c.internal_id)
  \o elasticHits

\* elasticHits[element.internal_id] = element, for every converted hit.
ReaderElasticHits(elasticHits, elements) ==
  SelectSeq(elasticHits,
            LAMBDA h : \A i \in DOMAIN elements : elements[i].internal_id # h.internal_id)
  \o elements

ReaderReturned(reader, hits, err) ==
  [ reader EXCEPT !.pc = "returned", !.hits = hits, !.err = err ]

\* elFindByIds(user, ids) is called: the ids are filtered, and the call returns
\* at once when none is left.
ReaderCalled(r, ids, processIds) ==
  rd' = [ rd EXCEPT ![r] =
            IF processIds = << >>
            THEN ReaderReturned([ ReaderIdle EXCEPT !.ids = ids, !.after = del.done,
                                                   !.calls = rd[r].calls + 1 ],
                                << >>, "none")
            ELSE [ ReaderIdle EXCEPT !.pc = "loadFromCache", !.ids = ids,
                                     !.after = del.done, !.calls = rd[r].calls + 1 ] ]

ReaderCalls ==
  \E r \in Readers :
    /\ rd[r].pc \in { "idle", "returned" }
    /\ rd[r].calls < MaxCalls
    /\ \E ids \in { << "e1" >>, << "e2", "e1" >>, << NullId >> } :
         ReaderCalled(r, ids, SelectSeq(ids, LAMBDA id : id # NullId))
    /\ UNCHANGED << index, cache, useCache, io, del, lst, cdc, blk >>

\* await loadFromCache(user, ids, type): the cached ids are left out of the search.
ReaderLoaded(r, fromCache, remainingIds) ==
  rd' = [ rd EXCEPT ![r] =
            IF remainingIds = << >>
            THEN ReaderReturned([ @ EXCEPT !.cacheHits = fromCache.accessible ],
                                ReaderHits(fromCache.accessible, << >>), "none")
            ELSE [ @ EXCEPT !.pc = "search", !.cacheHits = fromCache.accessible,
                            !.groups = splitEvery(MAX_SPLIT, remainingIds) ] ]

ReaderLoadsFromCache ==
  \E r \in Readers :
    /\ rd[r].pc = "loadFromCache"
    /\ LET fromCache == loadFromCache(AdminUser, cache, rd[r].ids, NullId)
       IN ReaderLoaded(r, fromCache,
                       SelectSeq(SelectSeq(rd[r].ids, LAMBDA id : id # NullId),
                                 LAMBDA id : id \notin fromCache.cached))
    /\ UNCHANGED << index, cache, useCache, io, del, lst, cdc, blk >>

\* await el.search(query) for the group of ids at hand: the hits are converted.
ReaderSearched(r, esHits) ==
  rd' = [ rd EXCEPT ![r] =
            IF \E i \in DOMAIN esHits : elRebuildRelationFails(esHits[i].source)
            THEN ReaderReturned(@, << >>, "DatabaseError")
            ELSE [ @ EXCEPT !.pc = "cacheSet",
                            !.elasticHits =
                              ReaderElasticHits(@, [ i \in DOMAIN esHits |->
                                                       elDataConverter(esHits[i]) ]) ] ]

ReaderSearches ==
  \E r \in Readers :
    /\ rd[r].pc = "search"
    /\ ReaderSearched(r, Search(index, READ_DATA_INDICES,
                                elFindByIdsBody(AdminUser, Head(rd[r].groups), NullId)).hits)
    /\ UNCHANGED << index, cache, useCache, io, del, lst, cdc, blk >>

\* await cacheSet(Object.values(elasticHits)), then the next group or the return.
ReaderCacheSets ==
  \E r \in Readers :
    /\ rd[r].pc = "cacheSet"
    /\ cache' = cacheSet(useCache, cache, rd[r].elasticHits)
    /\ rd' = [ rd EXCEPT ![r] =
                 IF Tail(@.groups) = << >>
                 THEN ReaderReturned([ @ EXCEPT !.groups = << >> ],
                                     ReaderHits(@.cacheHits, @.elasticHits), "none")
                 ELSE [ @ EXCEPT !.pc = "search", !.groups = Tail(@) ] ]
    /\ UNCHANGED << index, useCache, io, del, lst, cdc, blk >>

\* await Promise.all([cachePromise, bulkPromise]): elDeleteInstanceIds returns
\* when both requests have landed.
ReadersDeleteReturns ==
  /\ blk.pc = "issued"
  /\ blk.pending = {}
  /\ blk' = NoBlk
  /\ del' = [ del EXCEPT !.done = @ \cup blk.dels ]
  /\ UNCHANGED << index, cache, useCache, io, rd, lst, cdc >>

NextReaders ==
  \/ ReaderCalls
  \/ ReaderLoadsFromCache
  \/ ReaderSearches
  \/ ReaderCacheSets
  \/ IssueDeleteInstanceIds
  \/ WriterLands
  \/ ReadersDeleteReturns

SpecReaders == InitReaders /\ [][NextReaders]_vars

\* The ids of the elements a returned call gave back although their
\* elDeleteInstanceIds had returned before the call began.
DeletedReturned(r) ==
  { rd[r].hits[i].internal_id : i \in DOMAIN rd[r].hits } \cap rd[r].after

\* C38: once elDeleteInstanceIds has returned for an element, no elFindByIds call
\* that begins afterwards returns that element, whatever the readers running
\* beside the deletion did.
C38_DeletedNeverReturned ==
  \A r \in Readers : rd[r].pc = "returned" => DeletedReturned(r) = {}

\* What the code keeps: the search of a later call never finds the deleted
\* element, and with the cache disabled no later call returns it.
C38_DeletedNeverSearched ==
  \A r \in Readers :
    /\ \A i \in DOMAIN rd[r].elasticHits : rd[r].elasticHits[i].internal_id \notin rd[r].after
    /\ (~useCache /\ rd[r].pc = "returned") => DeletedReturned(r) = {}

\* A call that began after the deletion of e1 had returned gave back e1, from
\* the cache another reader filled after the invalidation.
C38_DeletedReadFromCache ==
  \E r \in Readers :
    /\ rd[r].pc = "returned"
    /\ "e1" \in DeletedReturned(r)
    /\ "e1" \notin DOMAIN index
    /\ \A i \in DOMAIN rd[r].elasticHits : rd[r].elasticHits[i].internal_id # "e1"

\* ------------------------------------------------------------------------
\* Specification of elIndexElements on batches of which an element may fail to
\* encode; cdc holds the last batch given and the number of calls
\* ------------------------------------------------------------------------
\* Bound of the model on the number of batches written on one store.
MaxBatches == 2

\* A relationship from e1 to e2 as given to elIndexElements: well formed, without
\* one of its roles, or with one endpoint that was not resolved.
EncodeRelations(id) ==
  UNION { { RelationElement(id, type, index["e1"], index["e2"],
                            RoleOf(type, ROLE_FROM), RoleOf(type, ROLE_TO)),
            RelationElement(id, type, index["e1"], index["e2"], Null, RoleOf(type, ROLE_TO)),
            RelationElement(id, type, index["e1"], index["e2"], RoleOf(type, ROLE_FROM), Null),
            RelationElement(id, type, NullElement, index["e2"],
                            RoleOf(type, ROLE_FROM), RoleOf(type, ROLE_TO)),
            RelationElement(id, type, index["e1"], NullElement,
                            RoleOf(type, ROLE_FROM), RoleOf(type, ROLE_TO)) } :
          type \in CodecTypes }

EncodeBatches ==
  { << a >> : a \in EncodeRelations("r1") }
  \cup { << a, b >> : a \in EncodeRelations("r1"), b \in EncodeRelations("r2") }
  \cup { << EntityDoc("e3", "Malware", Null, 0), a >> : a \in EncodeRelations("r1") }

InitEncode ==
  /\ index = [ id \in EntityIds |-> EntityDoc(id, "Malware", Null, 0) ]
  /\ cache = << >>
  /\ useCache = TRUE
  /\ io = NoIo
  /\ del = NoDel
  /\ rd = NoRd
  /\ lst = NoLst
  /\ cdc = [ pc |-> "idle", calls |-> 0, elements |-> << >> ]
  /\ blk = NoBlk

\* elIndexElements(elements).
EncodeIndex ==
  /\ cdc.calls < MaxBatches
  /\ \E elements \in EncodeBatches :
       /\ ElIndexElementsDone(Len(elements), elIndexElements(index, cache, elements))
       /\ cdc' = [ cdc EXCEPT !.calls = @ + 1, !.elements = elements ]
  /\ UNCHANGED << useCache, del, rd, lst, blk >>

\* elFindByIds(user, ids): a read between two batches fills the cache.
EncodeRead ==
  /\ \E ids \in { << "e1" >>, << "e2", "e1" >> } :
       cache' = elFindByIds(AdminUser, index, useCache, cache, ids, READ_DATA_INDICES,
                            NullId).cache
  /\ UNCHANGED << index, useCache, io, del, rd, lst, cdc, blk >>

NextEncode ==
  \/ EncodeIndex
  \/ EncodeRead

SpecEncode == InitEncode /\ [][NextEncode]_vars

\* C39: when the encoding of an element of the batch fails, elIndexElements
\* raises, issues no bulk and no cache invalidation, and leaves the index and
\* the cache as they were before the call.
C39_FailedEncodingLeavesStore ==
  [][ (cdc'.calls = cdc.calls + 1 /\ prepareIndexingFails(cdc'.elements))
        => /\ index' = index
           /\ cache' = cache
           /\ io'.err = "DatabaseError"
           /\ io'.bulks = 0
           /\ io'.cacheDels = 0 ]_vars

\* A batch of a well formed relationship and one without its source role was
\* refused while e1 was cached: neither document is stored, e1 holds no
\* reference and is still cached.
C39_BatchRefusedWithGoodElement ==
  /\ io.op = "elIndexElements"
  /\ io.err = "DatabaseError"
  /\ Len(cdc.elements) = 2
  /\ ~prepareIndexingFails(<< cdc.elements[1] >>)
  /\ cdc.elements[1].base_type = BASE_TYPE_RELATION
  /\ cdc.elements[2].fromRole = Null
  /\ DOMAIN index = EntityIds
  /\ "e1" \in DOMAIN cache
  /\ FieldIds(index, "e1", buildRefRelationKey(cdc.elements[1].entity_type)) = {}

====
